---------------------------- MODULE Spec2Model ----------------------------
(***************************************************************************)
(* A model of the tool-execution sandbox of cli-agent: the path validator  *)
(* (src/utils/path_validator.py), the output limiter                       *)
(* (src/utils/output_limiter.py) and the text editor tool                  *)
(* (src/tools/text_editor_tool.py).                                        *)
(*                                                                         *)
(* Python strings are sequences of one-character strings, so that          *)
(* startswith, split, normpath, relpath and fnmatch are computed character *)
(* by character as the library computes them.  The platform is POSIX       *)
(* (os.sep = "/").                                                         *)
(***************************************************************************)
EXTENDS Integers, Sequences, FiniteSets, TLC

VARIABLES
    repo_path,        \* PathValidator.repo_path (absolute, normalized)
    allowed_folders,  \* PathValidator.allowed_folders
    ignore_patterns,  \* PathValidator.ignore_patterns
    call,             \* which entry point ran last ("idle" between calls)
    raw,              \* the raw path argument of the last call
    res,              \* the result of the last call
    text,             \* truncate_text: the text argument
    max_chars,        \* truncate_text: the max_chars argument
    add_note,         \* truncate_text: the add_note argument
    out,              \* truncate_text: the returned string
    files,            \* the regular files outside the backup store: path -> content
    backups,          \* the files of the backup store: path -> content
    last_edits,       \* TextEditorTool.last_edits: path -> edit record
    tool_input,       \* the input of the last editor tool call
    tool_result,      \* the result of the last editor tool call
    pre_files,        \* files as it was when the last call started
    pre_backups,      \* backups as it was when the last call started
    pre_last_edits,   \* last_edits as it was when the last call started
    hist,             \* per path: the committed edits and the undos so far
    ncalls,           \* the number of tool calls made so far
    agent_pc,         \* where the agent is: "idle", "api", "tools" or "prompt"
    tools,            \* ToolRegistry.tools: the names registered
    conversation_history, \* Agent.conversation_history
    pending,          \* the tool calls of the response not yet executed
    tool_results,     \* the results of the tool calls of the response so far
    waiting,          \* the tool call that waits for the user's answer
    exec,             \* what the last tool call executed did so far
    model,            \* Agent.model
    schema_less_tools, \* Agent.schema_less_tools: the names of the tool specs
    requests,         \* the tools of each request sent to the reasoning service
    search_input,     \* the input of the last search or formatting call
    search_results,   \* the results that the last search returned
    search_content    \* the text that the last formatting call returned

pathVars == <<repo_path, allowed_folders, ignore_patterns, call, raw, res>>
truncVars == <<text, max_chars, add_note, out>>
editVars == <<files, backups, last_edits, tool_input, tool_result, pre_files,
              pre_backups, pre_last_edits, hist, ncalls>>
offerVars == <<model, schema_less_tools, requests>>
agentVars == <<agent_pc, tools, conversation_history, pending, tool_results, waiting, exec,
               offerVars>>
searchVars == <<search_input, search_results, search_content>>
vars == <<pathVars, truncVars, editVars, agentVars, searchVars>>

----------------------------------------------------------------------------
(* Bounds of the model.                                                    *)

MaxPathLen == 4
MaxTextLen == 80
MaxChars == 80
MaxFileLen == 3
MaxStrLen == 2
MaxCalls == 2
MaxInitLen == 2
MaxInsertLine == 2
MaxOps == 3
MaxOneFileOps == 4
MaxViewLines == 300
MaxViews == 1
MaxAgentCalls == 2
MaxAnswers == 2
MaxRawLen == 20000
Margin == 20
DefaultMaxChars == 10000
MaxRegistrations == 2
MaxMaxResults == 3
MaxMaxPerFile == 2
LongLineTail == 60
MaxSent == 3

----------------------------------------------------------------------------
(* Python str operations.                                                  *)

SEP == "/"

StartsWith(s, p) ==
    /\ Len(p) <= Len(s)
    /\ SubSeq(s, 1, Len(p)) = p

EndsWith(s, p) ==
    /\ Len(p) <= Len(s)
    /\ SubSeq(s, Len(s) - Len(p) + 1, Len(s)) = p

\* s[i:] with a 0-based i, 0 <= i
From(s, i) == SubSeq(s, i + 1, Len(s))

\* s[:k] as Python slices it: a negative k counts from the end
Slice(s, k) ==
    IF k >= 0 THEN SubSeq(s, 1, IF k < Len(s) THEN k ELSE Len(s))
    ELSE SubSeq(s, 1, IF Len(s) + k > 0 THEN Len(s) + k ELSE 0)

RECURSIVE SplitFrom(_, _, _)
\* s.split("/"): cur is the component being read
SplitFrom(s, i, cur) ==
    IF i > Len(s) THEN <<cur>>
    ELSE IF s[i] = SEP THEN <<cur>> \o SplitFrom(s, i + 1, <<>>)
    ELSE SplitFrom(s, i + 1, Append(cur, s[i]))

Split(s) == SplitFrom(s, 1, <<>>)

RECURSIVE JoinSep(_)
\* "/".join(parts)
JoinSep(parts) ==
    IF parts = <<>> THEN <<>>
    ELSE IF Len(parts) = 1 THEN parts[1]
    ELSE parts[1] \o <<SEP>> \o JoinSep(Tail(parts))

NonEmpty(parts) == SelectSeq(parts, LAMBDA c : c # <<>>)

DOT == <<".">>
DOTDOT == <<".", ".">>

----------------------------------------------------------------------------
(* posixpath.                                                              *)

IsAbs(p) == StartsWith(p, <<SEP>>)

\* os.path.join(a, b)
PathJoin(a, b) ==
    IF IsAbs(b) THEN b
    ELSE IF a = <<>> \/ EndsWith(a, <<SEP>>) THEN a \o b
    ELSE a \o <<SEP>> \o b

\* the number of leading slashes normpath keeps: POSIX lets exactly two
\* leading slashes mean something else than one, three or more mean one
InitialSlashes(p) ==
    IF ~StartsWith(p, <<SEP>>) THEN 0
    ELSE IF StartsWith(p, <<SEP, SEP>>) /\ ~StartsWith(p, <<SEP, SEP, SEP>>) THEN 2
    ELSE 1

RECURSIVE NormComps(_, _, _)
\* the loop of normpath over the split components
NormComps(comps, new_comps, initial_slashes) ==
    IF comps = <<>> THEN new_comps
    ELSE LET comp == Head(comps)
             n == Len(new_comps)
         IN  IF comp = <<>> \/ comp = DOT
                 THEN NormComps(Tail(comps), new_comps, initial_slashes)
             ELSE IF \/ comp # DOTDOT
                     \/ (initial_slashes = 0 /\ n = 0)
                     \/ (n > 0 /\ new_comps[n] = DOTDOT)
                 THEN NormComps(Tail(comps), Append(new_comps, comp), initial_slashes)
             ELSE IF n > 0
                 THEN NormComps(Tail(comps), SubSeq(new_comps, 1, n - 1), initial_slashes)
             ELSE NormComps(Tail(comps), new_comps, initial_slashes)

\* os.path.normpath(path)
NormPath(path) ==
    IF path = <<>> THEN DOT
    ELSE LET k == InitialSlashes(path)
             body == JoinSep(NormComps(Split(path), <<>>, k))
             r == [i \in 1..k |-> SEP] \o body
         IN  IF r = <<>> THEN DOT ELSE r

\* the index of the last "/" of p, 0 when there is none
LastSep(p) ==
    IF \E i \in 1..Len(p) : p[i] = SEP
    THEN CHOOSE i \in 1..Len(p) : p[i] = SEP /\ \A j \in (i + 1)..Len(p) : p[j] # SEP
    ELSE 0

RECURSIVE RStripSep(_)
RStripSep(s) ==
    IF s # <<>> /\ s[Len(s)] = SEP THEN RStripSep(SubSeq(s, 1, Len(s) - 1)) ELSE s

\* os.path.dirname(p)
DirName(p) ==
    LET head == SubSeq(p, 1, LastSep(p))
    IN  IF head # <<>> /\ \E i \in 1..Len(head) : head[i] # SEP
        THEN RStripSep(head) ELSE head

\* os.path.basename(p)
BaseName(p) == From(p, LastSep(p))

\* The working directory of the process, which os.path.abspath prepends to
\* a relative path.
Cwd == <<SEP>>

\* os.path.abspath(p)
AbsPath(p) == NormPath(PathJoin(Cwd, p))

\* the length of the common prefix of two component lists
CommonLen(a, b) ==
    LET m == IF Len(a) < Len(b) THEN Len(a) ELSE Len(b)
    IN  IF \E i \in 1..m : a[i] # b[i]
        THEN (CHOOSE i \in 1..m : a[i] # b[i] /\ \A j \in 1..(i - 1) : a[j] = b[j]) - 1
        ELSE m

\* os.path.relpath(path, start)
RelPath(path, start) ==
    LET start_list == NonEmpty(Split(AbsPath(start)))
        path_list == NonEmpty(Split(AbsPath(path)))
        i == CommonLen(start_list, path_list)
        rel_list == [k \in 1..(Len(start_list) - i) |-> DOTDOT]
                        \o SubSeq(path_list, i + 1, Len(path_list))
    IN  IF rel_list = <<>> THEN DOT ELSE JoinSep(rel_list)

\* pathlib.Path(p).parts: the root ("/" or "//") when there is one, then
\* the components that are neither empty nor "."
PathParts(p) ==
    LET k == InitialSlashes(p)
        comps == SelectSeq(Split(p), LAMBDA c : c # <<>> /\ c # DOT)
    IN  IF k = 0 THEN comps ELSE <<[i \in 1..k |-> SEP]>> \o comps

RECURSIVE JoinAll(_)
\* os.path.join(*parts)
JoinAll(parts) ==
    IF Len(parts) = 1 THEN parts[1]
    ELSE PathJoin(JoinAll(SubSeq(parts, 1, Len(parts) - 1)), parts[Len(parts)])

----------------------------------------------------------------------------
(* fnmatch.                                                                *)

RECURSIVE FnMatchFrom(_, _, _, _)
\* whether name[i..] matches pat[j..] in full: "*" is any run of characters
\* (a "/" included), "?" is any one character, any other character is itself
FnMatchFrom(name, i, pat, j) ==
    IF j > Len(pat) THEN i > Len(name)
    ELSE IF pat[j] = "*"
        THEN \/ FnMatchFrom(name, i, pat, j + 1)
             \/ (i <= Len(name) /\ FnMatchFrom(name, i + 1, pat, j))
    ELSE /\ i <= Len(name)
         /\ (pat[j] = "?" \/ pat[j] = name[i])
         /\ FnMatchFrom(name, i + 1, pat, j + 1)

\* fnmatch.fnmatch(name, pat)
FnMatch(name, pat) == FnMatchFrom(name, 1, pat, 1)

----------------------------------------------------------------------------
(* PathValidator.                                                          *)

TraversalMsg == "Path traversal not allowed: "
IgnoredMsg == "Path is ignored by .toolignore: "
DeniedMsg == "Path is not in allowed folders: "

\* whether norm_path or one of its leading parts matches the pattern
MatchesPattern(norm_path, pattern) ==
    \/ FnMatch(norm_path, pattern)
    \/ LET parts == PathParts(norm_path)
       IN  \E i \in 1..Len(parts) : FnMatch(JoinAll(SubSeq(parts, 1, i)), pattern)

\* PathValidator.is_path_ignored(path)
IsPathIgnored(path) ==
    LET norm_path == NormPath(path)
    IN  \E k \in 1..Len(ignore_patterns) : MatchesPattern(norm_path, ignore_patterns[k])

\* the allowed folder made absolute
AllowedPath(allowed_folder) ==
    IF ~IsAbs(allowed_folder) THEN NormPath(PathJoin(repo_path, allowed_folder))
    ELSE NormPath(allowed_folder)

\* a slip: the prefix test without the separator
InAllowedFolderNoSep(norm_path, allowed_path) ==
    \/ norm_path = allowed_path
    \/ StartsWith(norm_path, allowed_path)
    \/ ~StartsWith(RelPath(norm_path, allowed_path), DOTDOT)

\* the body of the loop of is_path_allowed over the allowed folders
InAllowedFolder(norm_path, allowed_path) ==
    \/ norm_path = allowed_path
    \/ StartsWith(norm_path, allowed_path \o <<SEP>>)
    \/ ~StartsWith(RelPath(norm_path, allowed_path), DOTDOT)

\* PathValidator.is_path_allowed(path)
IsPathAllowed(path) ==
    LET norm_path == NormPath(path)
    IN  \/ norm_path = repo_path \/ norm_path = DOT
        \/ DirName(norm_path) = <<>> \/ DirName(norm_path) = DOT
        \/ ~StartsWith(RelPath(norm_path, repo_path), DOTDOT)
        \/ /\ allowed_folders # {}
           /\ \E allowed_folder \in allowed_folders :
                  InAllowedFolder(norm_path, AllowedPath(allowed_folder))

\* the handling of a leading slash, in validate_path and in handle_tool_call
StripSlash(path) ==
    IF StartsWith(path, <<SEP>>)
    THEN (IF Len(path) > 1 THEN From(path, 1) ELSE DOT)
    ELSE path

\* PathValidator.validate_path(path): (is_valid, msg + path)
ValidatePath(original_path) ==
    LET path1 == StripSlash(original_path)
        path2 == IF ~IsAbs(path1) THEN PathJoin(repo_path, path1) ELSE path1
        norm_path == NormPath(path2)
    IN  IF \E i \in 1..Len(Split(norm_path)) : Split(norm_path)[i] = DOTDOT
            THEN [is_valid |-> FALSE, msg |-> TraversalMsg, path |-> original_path]
        ELSE IF IsPathIgnored(norm_path)
            THEN [is_valid |-> FALSE, msg |-> IgnoredMsg, path |-> norm_path]
        ELSE IF ~IsPathAllowed(norm_path)
            THEN [is_valid |-> FALSE, msg |-> DeniedMsg, path |-> norm_path]
        ELSE [is_valid |-> TRUE, msg |-> "", path |-> norm_path]

\* the start of TextEditorTool.handle_tool_call: the leading slash is
\* stripped, then the path goes through validate_path
ToolValidate(path) == ValidatePath(StripSlash(path))

----------------------------------------------------------------------------
(* The path validator's inputs.                                            *)

PathChars == {"/", ".", "a", "x"}

RawPaths == UNION {[1..n -> PathChars] : n \in 0..MaxPathLen}

\* repository roots, as os.path.abspath leaves them
RepoPaths == {<<"/", "a">>, <<"/", "x", "a">>}

\* the allowed_folders lists: empty, an absolute folder, a relative one
AllowedChoices == {{}, {<<"/", "x">>}, {<<"x">>}}

\* the contents of .toolignore, as _load_ignore_patterns leaves them
PatternLists ==
    {<<>>, << <<"*", ".", "a">> >>, << <<"a">> >>, << <<"*", "x", "*">> >>}

NoRes == [is_valid |-> FALSE, msg |-> "", path |-> <<>>, handler |-> "none"]

----------------------------------------------------------------------------
(* The values the other components hold while one component is exercised.  *)

TruncIdle == text = <<>> /\ max_chars = 0 /\ add_note = TRUE /\ out = <<>>

EditIdle ==
    /\ files = <<>> /\ backups = <<>> /\ last_edits = <<>>
    /\ tool_input = <<>> /\ tool_result = <<>> /\ pre_files = <<>>
    /\ pre_backups = <<>> /\ pre_last_edits = <<>> /\ hist = <<>>
    /\ ncalls = 0

NoExec == [id |-> 0, name |-> "", raised |-> "", handler_calls |-> 0,
           answers |-> 0, answer |-> ""]

SearchIdle == search_input = <<>> /\ search_results = <<>> /\ search_content = <<>>

OfferIdle == model = "" /\ schema_less_tools = <<>> /\ requests = <<>>

AgentIdle ==
    /\ agent_pc = "idle" /\ tools = {} /\ conversation_history = <<>>
    /\ pending = <<>> /\ tool_results = <<>> /\ waiting = <<>> /\ exec = NoExec
    /\ OfferIdle

PathIdle ==
    /\ repo_path = <<>> /\ allowed_folders = {} /\ ignore_patterns = <<>>
    /\ call = "idle" /\ raw = <<>> /\ res = NoRes

----------------------------------------------------------------------------
(* The path validator as a state machine: a validator is constructed, then *)
(* paths are validated one call at a time.                                 *)

\* PathValidator.__init__
Init ==
    /\ repo_path \in RepoPaths
    /\ allowed_folders \in AllowedChoices
    /\ ignore_patterns \in PatternLists
    /\ call = "idle" /\ raw = <<>> /\ res = NoRes
    /\ TruncIdle /\ SearchIdle /\ EditIdle /\ AgentIdle

\* a call of PathValidator.validate_path(path)
ValidatePathCall ==
    /\ call = "idle"
    /\ \E path \in RawPaths :
        /\ raw' = path
        /\ \E v \in {ValidatePath(path)} :
               res' = [is_valid |-> v.is_valid, msg |-> v.msg, path |-> v.path,
                       handler |-> "none"]
    /\ call' = "validate_path"
    /\ UNCHANGED searchVars
    /\ UNCHANGED <<agentVars, repo_path, allowed_folders, ignore_patterns, truncVars, editVars>>

\* a call of TextEditorTool.handle_tool_call up to the dispatch: an invalid
\* path returns the error result, a valid one reaches the command's handler
HandleToolCallPath ==
    /\ call = "idle"
    /\ \E path \in RawPaths :
        /\ raw' = path
        /\ \E v \in {ToolValidate(path)} :
               res' = [is_valid |-> v.is_valid, msg |-> v.msg, path |-> v.path,
                       handler |-> IF v.is_valid THEN "dispatch" ELSE "none"]
    /\ call' = "handle_tool_call"
    /\ UNCHANGED searchVars
    /\ UNCHANGED <<agentVars, repo_path, allowed_folders, ignore_patterns, truncVars, editVars>>

\* the call returns
Return ==
    /\ call # "idle"
    /\ call' = "idle" /\ raw' = <<>> /\ res' = NoRes
    /\ UNCHANGED searchVars
    /\ UNCHANGED <<agentVars, repo_path, allowed_folders, ignore_patterns, truncVars, editVars>>

Next == ValidatePathCall \/ HandleToolCallPath \/ Return

Spec == Init /\ [][Next]_vars

----------------------------------------------------------------------------
(* What the claims about paths speak of.  A tree is named by the           *)
(* components of its root; "//a" and "/a" name the same directory.         *)

Segs(p) == NonEmpty(Split(p))

IsPrefixSeq(a, b) == Len(a) <= Len(b) /\ SubSeq(b, 1, Len(a)) = a

\* p is root or lies below root, and p is absolute without "." and ".."
Inside(p, root) ==
    /\ IsAbs(p)
    /\ \A i \in 1..Len(Segs(p)) : Segs(p)[i] # DOT /\ Segs(p)[i] # DOTDOT
    /\ IsPrefixSeq(Segs(root), Segs(p))

\* a relative path of plain names: no empty, "." or ".." component
PlainRel(p) ==
    /\ p # <<>>
    /\ \A i \in 1..Len(Split(p)) :
           Split(p)[i] # <<>> /\ Split(p)[i] # DOT /\ Split(p)[i] # DOTDOT

\* the leading parts of a plain relative path: "a", "a/x" for "a/x"
RelPrefixes(p) == {JoinSep(SubSeq(Split(p), 1, i)) : i \in 1..Len(Split(p))}

HasDotDot(p) == \E i \in 1..Len(Split(p)) : Split(p)[i] = DOTDOT

C1_WitnessDotDot ==
    /\ call = "validate_path" /\ res.is_valid /\ HasDotDot(raw)

\* C2: a path below repo_path one of whose ancestor directories has a
\* repo-relative path matching an ignore pattern is rejected as ignored.
C2_AncestorIgnored ==
    (/\ call = "validate_path" /\ PlainRel(raw)
     /\ \E k \in 1..Len(ignore_patterns) :
            \E a \in RelPrefixes(raw) \ {raw} : FnMatch(a, ignore_patterns[k]))
        => (~res.is_valid /\ res.msg = IgnoredMsg)

\* C3: a path below repo_path is not rejected as ignored when neither its
\* repo-relative path nor any leading part of it matches an ignore pattern.
C3_IgnoredOnlyByOwnPath ==
    (/\ call = "validate_path" /\ PlainRel(raw)
     /\ \A k \in 1..Len(ignore_patterns) :
            \A a \in RelPrefixes(raw) : ~FnMatch(a, ignore_patterns[k]))
        => res.msg # IgnoredMsg

\* C4: a raw path whose normalized form still has a ".." component is
\* rejected with the traversal error.
C4_TraversalError ==
    (call = "validate_path" /\ HasDotDot(NormPath(raw)))
        => (~res.is_valid /\ res.msg = TraversalMsg)

\* C5: a tool call whose raw path has a ".." component is rejected by the
\* path validation and reaches no handler.
C5_DotDotRejected ==
    (call = "handle_tool_call" /\ HasDotDot(raw))
        => (~res.is_valid /\ res.handler = "none")

\* C6: a raw path that begins with "/" is resolved below repo_path: when it
\* is accepted the result is repo_path or below it, and "/" alone gives
\* repo_path.
C6_LeadingSlashUnderRepo ==
    (call # "idle" /\ StartsWith(raw, <<SEP>>)) =>
        /\ res.is_valid => Inside(res.path, repo_path)
        /\ (raw = <<SEP>> /\ res.is_valid) => res.path = repo_path

\* C7: a path that is repo_path, a child of it or a deeper descendant, with
\* whatever names, passes the allow check: it is never rejected as not in
\* the allowed folders.
C7_RepoAlwaysAllowed ==
    (call = "validate_path" /\ PlainRel(raw)) => res.msg # DeniedMsg

\* C8: an absolute path that is an allowed folder outside repo_path, or lies
\* below one, and is not ignored, is accepted and returned as it is.
C8_AllowedFolderReachable ==
    (/\ call = "validate_path"
     /\ InitialSlashes(raw) = 1 /\ NormPath(raw) = raw
     /\ \E f \in allowed_folders :
            IsAbs(f) /\ ~Inside(AllowedPath(f), repo_path) /\ Inside(raw, AllowedPath(f))
     /\ res.msg # IgnoredMsg)
        => (res.is_valid /\ res.path = raw)

\* the traversal error is never produced: every path is joined to the
\* absolute repo_path before it is normalized, which resolves every ".."
NoTraversalMsg == res.msg # TraversalMsg

----------------------------------------------------------------------------
(* OutputLimiter.truncate_text.                                            *)

DigitChar == <<"0", "1", "2", "3", "4", "5", "6", "7", "8", "9">>

RECURSIVE Str(_)
\* str(n) of an integer n >= 0
Str(n) == IF n < 10 THEN <<DigitChar[n + 1]>> ELSE Str(n \div 10) \o <<DigitChar[(n % 10) + 1]>>

NoteHead ==
    <<"\n", "\n", "[", "O", "u", "t", "p", "u", "t", " ", "t", "r", "u", "n", "c",
      "a", "t", "e", "d", " ", "t", "o", " ">>
NoteMid ==
    <<" ", "c", "h", "a", "r", "a", "c", "t", "e", "r", "s", ".", " ", "O", "r", "i",
      "g", "i", "n", "a", "l", " ", "l", "e", "n", "g", "t", "h", ":", " ">>
NoteTail == <<" ", "c", "h", "a", "r", "a", "c", "t", "e", "r", "s", "]">>

\* the truncation note
TruncNote(n, length) == NoteHead \o Str(n) \o NoteMid \o Str(length) \o NoteTail

\* OutputLimiter.truncate_text(text, max_chars, add_note)
TruncateText(t, n, note_wanted) ==
    IF Len(t) <= n THEN t
    ELSE LET truncated == Slice(t, n)
             note == TruncNote(n, Len(t))
         IN  IF note_wanted THEN Slice(truncated, n - Len(note)) \o note
             ELSE truncated

\* the texts given to truncate_text: of every length up to MaxTextLen, in
\* two letterings, so that a cut shows in the content
TextOf(length, first) ==
    [i \in 1..length |-> IF i % 2 = 1 THEN first ELSE "-"]

Texts == {TextOf(length, first) : length \in 0..MaxTextLen, first \in {"a", "b"}}

InitTrunc == PathIdle /\ TruncIdle /\ SearchIdle /\ EditIdle /\ AgentIdle

\* a call of OutputLimiter.truncate_text
TruncateTextCall ==
    /\ call = "idle"
    /\ \E t \in Texts, n \in 0..MaxChars, note_wanted \in BOOLEAN :
        /\ text' = t /\ max_chars' = n /\ add_note' = note_wanted
        /\ out' = TruncateText(t, n, note_wanted)
    /\ call' = "truncate_text"
    /\ UNCHANGED searchVars
    /\ UNCHANGED <<agentVars, repo_path, allowed_folders, ignore_patterns, raw, res, editVars>>

\* the call returns
TruncateTextReturn ==
    /\ call = "truncate_text"
    /\ call' = "idle" /\ text' = <<>> /\ max_chars' = 0 /\ add_note' = TRUE /\ out' = <<>>
    /\ UNCHANGED searchVars
    /\ UNCHANGED <<agentVars, repo_path, allowed_folders, ignore_patterns, raw, res, editVars>>

NextTrunc == TruncateTextCall \/ TruncateTextReturn

SpecTrunc == InitTrunc /\ [][NextTrunc]_vars

\* C9: with the note enabled, truncate_text returns at most max_chars
\* characters, and returns the text itself when it is within max_chars.
C9_TruncatedWithinBudget ==
    (call = "truncate_text" /\ add_note) =>
        /\ Len(out) <= max_chars
        /\ Len(text) <= max_chars => out = text

\* from the length of the note on, the result is exactly max_chars long and
\* ends with the note
C9_FitsFromNoteLength ==
    (/\ call = "truncate_text" /\ add_note /\ Len(text) > max_chars
     /\ max_chars >= Len(TruncNote(max_chars, Len(text))))
        => Len(out) = max_chars

----------------------------------------------------------------------------
(* TextEditorTool.                                                         *)

\* the characters of file contents and of old_str and new_str
FileChars == {"a", "b"}

Strs(n) == UNION {[1..k -> FileChars] : k \in 0..n}

RECURSIVE CountFrom(_, _, _)
\* s.count(sub) for a non-empty sub: the occurrences found from the left,
\* each search resuming after the occurrence before it
CountFrom(s, sub, i) ==
    IF i + Len(sub) - 1 > Len(s) THEN 0
    ELSE IF SubSeq(s, i, i + Len(sub) - 1) = sub
        THEN 1 + CountFrom(s, sub, i + Len(sub))
    ELSE CountFrom(s, sub, i + 1)

Count(s, sub) == CountFrom(s, sub, 1)

RECURSIVE ReplaceFrom(_, _, _, _)
\* s.replace(old, new) for a non-empty old
ReplaceFrom(s, old, new, i) ==
    IF i + Len(old) - 1 > Len(s) THEN SubSeq(s, i, Len(s))
    ELSE IF SubSeq(s, i, i + Len(old) - 1) = old
        THEN new \o ReplaceFrom(s, old, new, i + Len(old))
    ELSE <<s[i]>> \o ReplaceFrom(s, old, new, i + 1)

Replace(s, old, new) == ReplaceFrom(s, old, new, 1)

\* dict.get(key, default)
Get(params, key, default) == IF key \in DOMAIN params THEN params[key] ELSE default

\* d[key] = value on a dict
Put(d, key, value) == [k \in DOMAIN d \cup {key} |-> IF k = key THEN value ELSE d[k]]

\* TextEditorTool.backup_dir, for the default ".backups"
BackupDir == PathJoin(repo_path, <<".", "b", "a", "c", "k", "u", "p", "s">>)

\* the backup file of a path: its basename with ".bak", in the backup store
BackupFilename(file_path) ==
    PathJoin(BackupDir, BaseName(file_path) \o <<".", "b", "a", "k">>)

\* the directories of the repository: its root and one subdirectory
Dirs == {repo_path, PathJoin(repo_path, <<"a">>)}

\* os.path.isdir(path)
IsDir(path) == path \in Dirs

\* os.path.exists(path)
Exists(path) == IsDir(path) \/ path \in DOMAIN files

\* the content of a tool result: a message and what is formatted into it
Content(msg, path, detail, n, old, new) ==
    [msg |-> msg, path |-> path, detail |-> detail, n |-> n, old |-> old, new |-> new]

Message(msg) == Content(msg, <<>>, "", 0, <<>>, <<>>)

InvalidPathMsg == "Error: Invalid file path: "
FileNotFoundMsg == "Error: File not found"
OldStrRequiredMsg == "Error: old_str parameter is required"
TextNotFoundMsg == "Error: The text to replace was not found in the file"
MultipleMsg == "Error: The text to replace was found multiple times"
ConfirmEditMsg == "CONFIRM_EDIT"
ReplacedMsg == "Successfully replaced text at exactly one location."
ExecErrorMsg == "Error executing command"
UnknownCommandMsg == "Error: Unknown command"
IsADirectoryError == "[Errno 21] Is a directory"

\* What a handler does: it returns a message (raised = FALSE) or raises
\* (raised = TRUE), and leaves the files, the backup store and last_edits.
Outcome(raised, content, f, b, e) ==
    [raised |-> raised, content |-> content, files |-> f, backups |-> b, last_edits |-> e]

\* TextEditorTool._handle_str_replace(path, params); the backup is made by
\* _create_backup, which copies the file before it is read
HandleStrReplace(path, params) ==
    LET old_str == Get(params, "old_str", <<>>)
        new_str == Get(params, "new_str", <<>>)
        confirm == Get(params, "confirm", TRUE)
        backup_path == BackupFilename(path)
        backups1 == Put(backups, backup_path, files[path])
        content == files[path]
        new_content == Replace(content, old_str, new_str)
    IN  IF ~Exists(path)
            THEN Outcome(FALSE, Content(FileNotFoundMsg, path, "", 0, <<>>, <<>>),
                         files, backups, last_edits)
        ELSE IF old_str = <<>>
            THEN Outcome(FALSE, Message(OldStrRequiredMsg), files, backups, last_edits)
        ELSE IF IsDir(path)
            THEN Outcome(TRUE, Message(IsADirectoryError), files, backups, last_edits)
        ELSE IF Count(content, old_str) = 0
            THEN Outcome(FALSE, Message(TextNotFoundMsg), files, backups1, last_edits)
        ELSE IF Count(content, old_str) > 1
            THEN Outcome(FALSE,
                         Content(MultipleMsg, <<>>, "", Count(content, old_str), <<>>, <<>>),
                         files, backups1, last_edits)
        ELSE IF confirm
            THEN Outcome(FALSE, Content(ConfirmEditMsg, path, "", 0, content, new_content),
                         files, backups1, last_edits)
        ELSE Outcome(FALSE, Message(ReplacedMsg),
                     Put(files, path, new_content), backups1,
                     Put(last_edits, path,
                         [backup_path |-> backup_path, operation |-> "str_replace",
                          old_content |-> content, new_content |-> new_content]))

AlreadyExistsMsg == "Error: File already exists"
CreatedMsg == "Successfully created file"
InvalidInsertLineMsg == "Error: Invalid insert_line"
InsertedMsg == "Successfully inserted text after line"
NoPreviousEditsMsg == "Error: No previous edits found"
UndidCreateMsg == "Successfully undid file creation by deleting"
UndidFromBackupMsg == "Successfully undid changes from backup"
UndidFromMemoryMsg == "Successfully undid changes from stored content"
UndoUnavailableMsg == "Error: Could not undo changes"
CreateErrorMsg == "Error creating file"
UndoErrorMsg == "Error undoing edits"

\* the length of the preview of a file creation
PreviewLen == 1000

\* a create that does not look whether the path exists
HandleCreateOverwrite(path, params) ==
    LET file_text == Get(params, "file_text", <<>>)
    IN  IF Get(params, "confirm", TRUE)
            THEN Outcome(FALSE,
                         Content(ConfirmEditMsg, path, "", 0, <<>>,
                                 Slice(file_text, PreviewLen)),
                         files, backups, last_edits)
        ELSE Outcome(FALSE, Content(CreatedMsg, path, "", 0, <<>>, <<>>),
                     Put(files, path, file_text), backups,
                     Put(last_edits, path,
                         [backup_path |-> <<>>, operation |-> "create",
                          old_content |-> <<>>, new_content |-> file_text]))

\* TextEditorTool._handle_create(path, params).  The parent directories of
\* the paths of the model exist, so os.makedirs creates nothing; it raises
\* when the parent is a regular file, and the handler returns the error.
HandleCreate(path, params) ==
    LET file_text == Get(params, "file_text", <<>>)
        confirm == Get(params, "confirm", TRUE)
    IN  IF Exists(path)
            THEN Outcome(FALSE, Content(AlreadyExistsMsg, path, "", 0, <<>>, <<>>),
                         files, backups, last_edits)
        ELSE IF confirm
            THEN Outcome(FALSE,
                         Content(ConfirmEditMsg, path, "", 0, <<>>,
                                 Slice(file_text, PreviewLen)),
                         files, backups, last_edits)
        ELSE IF DirName(path) \in DOMAIN files
            THEN Outcome(FALSE, Message(CreateErrorMsg), files, backups, last_edits)
        ELSE Outcome(FALSE, Content(CreatedMsg, path, "", 0, <<>>, <<>>),
                     Put(files, path, file_text), backups,
                     Put(last_edits, path,
                         [backup_path |-> <<>>, operation |-> "create",
                          old_content |-> <<>>, new_content |-> file_text]))

NL == "\n"

RECURSIVE ReadLinesIn(_, _, _)
\* The lines of s[lo..hi], each with its line ending: those of the first
\* half, then those of the second, the two joined where the first half ends
\* within a line.  (Halving keeps the evaluation shallow on long files.)
ReadLinesIn(s, lo, hi) ==
    IF lo > hi THEN <<>>
    ELSE IF lo = hi THEN <<<<s[lo]>>>>
    ELSE LET mid == (lo + hi) \div 2
             first == ReadLinesIn(s, lo, mid)
             second == ReadLinesIn(s, mid + 1, hi)
         IN  IF s[mid] = NL THEN first \o second
             ELSE SubSeq(first, 1, Len(first) - 1)
                    \o <<first[Len(first)] \o Head(second)>> \o Tail(second)

\* f.readlines(): the lines of s, each with its line ending
ReadLines(s) == ReadLinesIn(s, 1, Len(s))

RECURSIVE JoinLinesIn(_, _, _)
JoinLinesIn(lines, lo, hi) ==
    IF lo > hi THEN <<>>
    ELSE IF lo = hi THEN lines[lo]
    ELSE LET mid == (lo + hi) \div 2
         IN  JoinLinesIn(lines, lo, mid) \o JoinLinesIn(lines, mid + 1, hi)

\* "".join(lines)
JoinLines(lines) == JoinLinesIn(lines, 1, Len(lines))

\* TextEditorTool._handle_insert(path, params); the message of an invalid
\* insert_line carries the number of lines of the file
HandleInsert(path, params) ==
    LET insert_line == Get(params, "insert_line", 0)
        new_str == Get(params, "new_str", <<>>)
        confirm == Get(params, "confirm", TRUE)
        backup_path == BackupFilename(path)
        backups1 == Put(backups, backup_path, files[path])
        lines == ReadLines(files[path])
        old_content == JoinLines(lines)
        new_content ==
            IF insert_line = 0 THEN new_str \o <<NL>> \o JoinLines(lines)
            ELSE JoinLines(SubSeq(lines, 1, insert_line)) \o new_str \o <<NL>>
                    \o JoinLines(SubSeq(lines, insert_line + 1, Len(lines)))
    IN  IF ~Exists(path)
            THEN Outcome(FALSE, Content(FileNotFoundMsg, path, "", 0, <<>>, <<>>),
                         files, backups, last_edits)
        ELSE IF IsDir(path)
            THEN Outcome(TRUE, Message(IsADirectoryError), files, backups, last_edits)
        ELSE IF insert_line < 0 \/ insert_line > Len(lines)
            THEN Outcome(FALSE,
                         Content(InvalidInsertLineMsg, <<>>, "", Len(lines), <<>>, <<>>),
                         files, backups1, last_edits)
        ELSE IF confirm
            THEN Outcome(FALSE,
                         Content(ConfirmEditMsg, path, "", 0, old_content, new_content),
                         files, backups1, last_edits)
        ELSE Outcome(FALSE, Content(InsertedMsg, <<>>, "", insert_line, <<>>, <<>>),
                     Put(files, path, new_content), backups1,
                     Put(last_edits, path,
                         [backup_path |-> backup_path, operation |-> "insert",
                          old_content |-> old_content, new_content |-> new_content]))

\* os.remove(path) on a regular file
Remove(f, path) == [q \in DOMAIN f \ {path} |-> f[q]]

\* an undo_edit that reports the restoration and leaves the file as it is
HandleUndoEditNoRestore(path) ==
    IF path \notin DOMAIN last_edits
        THEN Outcome(FALSE, Content(NoPreviousEditsMsg, path, "", 0, <<>>, <<>>),
                     files, backups, last_edits)
    ELSE Outcome(FALSE, Content(UndidFromBackupMsg, path, "", 0, <<>>, <<>>),
                 files, backups, last_edits)

\* TextEditorTool._handle_undo_edit(path); the record of the edit stays in
\* last_edits
HandleUndoEdit(path) ==
    IF path \notin DOMAIN last_edits
        THEN Outcome(FALSE, Content(NoPreviousEditsMsg, path, "", 0, <<>>, <<>>),
                     files, backups, last_edits)
    ELSE LET last_edit == last_edits[path]
         IN  IF last_edit.operation = "create"
                 THEN IF IsDir(path)
                     THEN Outcome(FALSE, Message(UndoErrorMsg),
                                  files, backups, last_edits)
                     ELSE Outcome(FALSE, Content(UndidCreateMsg, path, "", 0, <<>>, <<>>),
                                  Remove(files, path), backups, last_edits)
             ELSE IF last_edit.backup_path # <<>>
                     /\ last_edit.backup_path \in DOMAIN backups
                 THEN Outcome(FALSE, Content(UndidFromBackupMsg, path, "", 0, <<>>, <<>>),
                              Put(files, path, backups[last_edit.backup_path]),
                              backups, last_edits)
             ELSE IF "old_content" \in DOMAIN last_edit
                 THEN Outcome(FALSE, Content(UndidFromMemoryMsg, path, "", 0, <<>>, <<>>),
                              Put(files, path, last_edit.old_content),
                              backups, last_edits)
             ELSE Outcome(FALSE, Content(UndoUnavailableMsg, path, "", 0, <<>>, <<>>),
                          files, backups, last_edits)

\* the most lines that a view returns
ViewLimit == 250

ViewedMsg == "view"
ShowingNote == "Showing lines"
ShowingFirstNote == "Showing first lines"
MaximumNote == "Maximum view limit"
DirectoryListingMsg == "Directory listing for"

Max(a, b) == IF a >= b THEN a ELSE b
Min(a, b) == IF a <= b THEN a ELSE b

\* The result of a view: the lines shown, each with its number, and the
\* notes after them.
ViewContent(shown, notes) ==
    [msg |-> ViewedMsg, path |-> <<>>, detail |-> "", n |-> 0, old |-> <<>>, new |-> <<>>,
     shown |-> shown, notes |-> notes]

\* lines[start_idx:end_idx], each line with its number i+1
Numbered(lines, start_idx, end_idx) ==
    [j \in 1..Max(0, end_idx - start_idx) |->
        [no |-> start_idx + j, line |-> lines[start_idx + j]]]

\* the view of lines without the cap on a range
ViewLinesUncapped(lines, view_range) ==
    IF Len(view_range) = 2
    THEN LET start_line == Max(1, view_range[1])
             end_line == IF view_range[2] = 0 - 1 THEN Len(lines) ELSE view_range[2]
             end_idx == Min(end_line, Len(lines))
         IN  ViewContent(Numbered(lines, start_line - 1, end_idx),
                IF start_line > 1 \/ end_line < Len(lines)
                THEN <<[note |-> ShowingNote, from |-> start_line, to |-> end_line,
                        total |-> Len(lines)]>>
                ELSE <<>>)
    ELSE ViewContent(Numbered(lines, 0, Len(lines)), <<>>)

\* TextEditorTool._handle_view on the lines read from the file
ViewLines(lines, view_range) ==
    IF Len(view_range) = 2
    THEN LET start_line == Max(1, view_range[1])
             end0 == IF view_range[2] = 0 - 1 THEN Len(lines) ELSE view_range[2]
             end_line == IF end0 - start_line + 1 > ViewLimit
                         THEN start_line + (ViewLimit - 1) ELSE end0
             end_idx == Min(end_line, Len(lines))
         IN  ViewContent(Numbered(lines, start_line - 1, end_idx),
                IF start_line > 1 \/ end_line < Len(lines)
                THEN <<[note |-> ShowingNote, from |-> start_line, to |-> end_line,
                        total |-> Len(lines)]>>
                     \o (IF end_line - start_line + 1 = ViewLimit
                         THEN <<[note |-> MaximumNote, limit |-> ViewLimit]>>
                         ELSE <<>>)
                ELSE <<>>)
    ELSE ViewContent(Numbered(lines, 0, Min(Len(lines), ViewLimit)),
            IF Len(lines) > ViewLimit
            THEN <<[note |-> ShowingFirstNote, first |-> ViewLimit, total |-> Len(lines)],
                   [note |-> MaximumNote, limit |-> ViewLimit]>>
            ELSE <<>>)

\* TextEditorTool._handle_view(path, params); view_range is a list of
\* integers, or is left out
HandleView(path, params) ==
    IF ~Exists(path)
        THEN Outcome(FALSE, Content(FileNotFoundMsg, path, "", 0, <<>>, <<>>),
                     files, backups, last_edits)
    ELSE Outcome(FALSE, ViewLines(ReadLines(files[path]), Get(params, "view_range", <<>>)),
                 files, backups, last_edits)

\* TextEditorTool._handle_directory_listing(path): the entries are not
\* modelled
HandleDirectoryListing(path) ==
    Outcome(FALSE, Content(DirectoryListingMsg, path, "", 0, <<>>, <<>>),
            files, backups, last_edits)

\* the dispatch of handle_tool_call on the command
Dispatch(command, path, params) ==
    IF command = "view" /\ IsDir(path) THEN HandleDirectoryListing(path)
    ELSE IF command = "view" THEN HandleView(path, params)
    ELSE IF command = "str_replace" THEN HandleStrReplace(path, params)
    ELSE IF command = "create" THEN HandleCreate(path, params)
    ELSE IF command = "insert" THEN HandleInsert(path, params)
    ELSE IF command = "undo_edit" THEN HandleUndoEdit(path)
    ELSE Outcome(FALSE, Message(UnknownCommandMsg), files, backups, last_edits)

\* a handle_tool_call that dispatches the command whatever the validation
\* of the path says
ToolCallOutcomeUnvalidated(params) ==
    LET command == Get(params, "command", "")
        path == Get(params, "path", <<>>)
        o == Dispatch(command, ToolValidate(path).path, params)
    IN  [content |-> o.content, is_error |-> o.raised,
         files |-> o.files, backups |-> o.backups, last_edits |-> o.last_edits]

\* TextEditorTool.handle_tool_call(tool_call): the result and the state left
ToolCallOutcome(params) ==
    LET command == Get(params, "command", "")
        path == Get(params, "path", <<>>)
        v == ToolValidate(path)
        o == Dispatch(command, v.path, params)
    IN  IF ~v.is_valid
            THEN [content |-> Content(InvalidPathMsg, v.path, v.msg, 0, <<>>, <<>>),
                  is_error |-> TRUE,
                  files |-> files, backups |-> backups, last_edits |-> last_edits]
        ELSE IF o.raised
            THEN [content |-> Content(ExecErrorMsg, path, o.content.msg, 0, <<>>, <<>>),
                  is_error |-> TRUE,
                  files |-> o.files, backups |-> o.backups, last_edits |-> o.last_edits]
        ELSE [content |-> o.content,
              is_error |-> o.content.msg = UnknownCommandMsg,
              files |-> o.files, backups |-> o.backups, last_edits |-> o.last_edits]

----------------------------------------------------------------------------
(* The editor as a state machine: tool calls, one after the other.         *)

File1 == <<"/", "a", "/", "x">>
File2 == <<"/", "a", "/", "a", "/", "x">>
FilePaths == {File1, File2}

\* the raw paths of the tool calls: the two files, the subdirectory, and a
\* path outside the repository
EditRawPaths == {<<"x">>, <<"a", "/", "x">>, <<"a">>, <<".", ".", "/", "x">>}

NewStrs == {<<>>, <<"b">>}

\* the files at the start: File1 with any content or absent, File2 with one
\* content or absent
InitFiles ==
    {f \in UNION {[D -> Strs(MaxFileLen)] : D \in SUBSET FilePaths} :
        File2 \in DOMAIN f => f[File2] = <<"a", "b">>}

\* the inputs of a str_replace call; confirm may be left out
StrReplaceInputs ==
    LET base == [command : {"str_replace"}, path : EditRawPaths,
                 old_str : Strs(MaxStrLen), new_str : NewStrs]
    IN  base \cup {[k \in DOMAIN p \cup {"confirm"} |-> IF k = "confirm" THEN c ELSE p[k]] :
                      p \in base, c \in BOOLEAN}

\* TextEditorTool.__init__ in a repository at /a with no allowed folders
\* and no .toolignore
InitEdit ==
    /\ repo_path = <<"/", "a">> /\ allowed_folders = {} /\ ignore_patterns = <<>>
    /\ call = "idle" /\ raw = <<>> /\ res = NoRes
    /\ TruncIdle /\ SearchIdle /\ AgentIdle
    /\ files \in InitFiles
    /\ backups = <<>> /\ last_edits = <<>>
    /\ tool_input = <<>> /\ tool_result = <<>> /\ pre_files = <<>>
    /\ pre_backups = <<>> /\ pre_last_edits = <<>> /\ hist = <<>>
    /\ ncalls = 0

\* a tool call: TextEditorTool.handle_tool_call(params) runs to its end
DoToolCall(params) ==
    /\ call = "idle"
    /\ ncalls < MaxCalls
    /\ \E o \in {ToolCallOutcome(params)} :
        /\ \A q \in DOMAIN o.files : Len(o.files[q]) <= MaxFileLen
        /\ tool_result' = [content |-> o.content, is_error |-> o.is_error]
        /\ files' = o.files /\ backups' = o.backups /\ last_edits' = o.last_edits
    /\ tool_input' = params
    /\ pre_files' = files /\ pre_backups' = backups /\ pre_last_edits' = last_edits
    /\ ncalls' = ncalls + 1
    /\ call' = "handle_tool_call"
    /\ UNCHANGED searchVars
    /\ UNCHANGED <<agentVars, repo_path, allowed_folders, ignore_patterns, raw, res, truncVars, hist>>

\* a str_replace tool call
StrReplaceCall == \E params \in StrReplaceInputs : DoToolCall(params)

\* the tool call returns
ToolReturn ==
    /\ call = "handle_tool_call"
    /\ call' = "idle"
    /\ tool_input' = <<>> /\ tool_result' = <<>> /\ pre_files' = <<>>
    /\ pre_backups' = <<>> /\ pre_last_edits' = <<>>
    /\ UNCHANGED searchVars
    /\ UNCHANGED <<agentVars, repo_path, allowed_folders, ignore_patterns, raw, res, truncVars,
                   files, backups, last_edits, hist, ncalls>>

NextEdit == StrReplaceCall \/ ToolReturn

SpecEdit == InitEdit /\ [][NextEdit]_vars

----------------------------------------------------------------------------
(* The editor under all its mutating commands: str_replace, create, insert *)
(* and undo_edit on two files of the same name, File1 and File2, whose     *)
(* contents are lines.                                                     *)

LineChars == {"a", NL}

Contents(n) == UNION {[1..k -> LineChars] : k \in 0..n}

\* the raw paths of the commands: File1 and File2
CmdPaths == {<<"x">>, <<"a", "/", "x">>}

\* the files at the start: File1 with any content or absent, File2 with one
\* content or absent
InitCmdFiles ==
    {f \in UNION {[D -> Contents(MaxInitLen)] : D \in SUBSET FilePaths} :
        File2 \in DOMAIN f => f[File2] = <<"a", NL>>}

\* a record with one more key
With(p, key, value) == [k \in DOMAIN p \cup {key} |-> IF k = key THEN value ELSE p[k]]

\* the inputs with confirm left out, true, and false
Confirms(base) == base \cup {With(p, "confirm", c) : p \in base, c \in BOOLEAN}

\* the inputs with confirm left out, and false
ConfirmOrNot(base) == base \cup {With(p, "confirm", FALSE) : p \in base}

CmdStrReplaceInputs ==
    Confirms([command : {"str_replace"}, path : CmdPaths,
              old_str : {<<"a">>}, new_str : {<<>>, <<NL>>}])

CreateInputs ==
    ConfirmOrNot([command : {"create"}, path : CmdPaths, file_text : {<<>>, <<"a">>}])

InsertInputs ==
    ConfirmOrNot([command : {"insert"}, path : CmdPaths,
              insert_line : (0 - 1)..MaxInsertLine, new_str : {<<"a">>}])

UndoEditInputs == [command : {"undo_edit"}, path : CmdPaths]

CommittedMsgs == {ReplacedMsg, CreatedMsg, InsertedMsg}
UndoneMsgs == {UndidCreateMsg, UndidFromBackupMsg, UndidFromMemoryMsg}

\* the file at a path, as a map with that path or with none
FileAt(f, path) == [q \in DOMAIN f \cap {path} |-> f[q]]

\* What hist records of the paths after a call on path that returned msg.
\* Of each path with a committed edit: the number n of its committed edits,
\* the command op of the last of them, the file before the last of them and
\* before the one before it, the number undos of undos that succeeded since
\* the last of them, the number age of calls made since the last of them,
\* and the set held of the files that were at the path before its calls.
Recorded(path, command, msg) ==
    LET aged == [q \in DOMAIN hist |-> [hist[q] EXCEPT !.age = @ + 1]]
        h == Get(aged, path, [n |-> 0, op |-> "", before |-> <<>>, earlier |-> <<>>,
                              undos |-> 0, age |-> 0, held |-> {}])
        held == h.held \cup {FileAt(files, path)}
    IN  IF msg \in CommittedMsgs
            THEN Put(aged, path, [n |-> h.n + 1, op |-> command,
                                  before |-> FileAt(files, path), earlier |-> h.before,
                                  undos |-> 0, age |-> 0, held |-> held])
        ELSE IF msg \in UndoneMsgs
            THEN Put(aged, path, [h EXCEPT !.undos = @ + 1, !.held = held])
        ELSE IF path \in DOMAIN hist
            THEN Put(aged, path, [h EXCEPT !.held = held])
        ELSE aged

\* TextEditorTool.__init__ in a repository at /a with no allowed folders
\* and no .toolignore
InitCmds ==
    /\ repo_path = <<"/", "a">> /\ allowed_folders = {} /\ ignore_patterns = <<>>
    /\ call = "idle" /\ raw = <<>> /\ res = NoRes
    /\ TruncIdle /\ SearchIdle /\ AgentIdle
    /\ files \in InitCmdFiles
    /\ backups = <<>> /\ last_edits = <<>>
    /\ tool_input = <<>> /\ tool_result = <<>> /\ pre_files = <<>>
    /\ pre_backups = <<>> /\ pre_last_edits = <<>> /\ hist = <<>>
    /\ ncalls = 0

\* a command, one of at most max: TextEditorTool.handle_tool_call(params)
\* runs to its end
Command(params, max) ==
    /\ call = "idle"
    /\ ncalls < max
    /\ \E o \in {ToolCallOutcome(params)} :
        /\ tool_result' = [content |-> o.content, is_error |-> o.is_error]
        /\ files' = o.files /\ backups' = o.backups /\ last_edits' = o.last_edits
        /\ hist' = Recorded(ToolValidate(params.path).path, params.command, o.content.msg)
    /\ tool_input' = params
    /\ pre_files' = files /\ pre_backups' = backups /\ pre_last_edits' = last_edits
    /\ ncalls' = ncalls + 1
    /\ call' = "handle_tool_call"
    /\ UNCHANGED searchVars
    /\ UNCHANGED <<agentVars, repo_path, allowed_folders, ignore_patterns, raw, res, truncVars>>

DoCommand(params) == Command(params, MaxOps)

CmdStrReplace == \E params \in CmdStrReplaceInputs : DoCommand(params)
CmdCreate == \E params \in CreateInputs : DoCommand(params)
CmdInsert == \E params \in InsertInputs : DoCommand(params)
CmdUndoEdit == \E params \in UndoEditInputs : DoCommand(params)

\* the commands on a path outside the repository
InvalidPathInputs ==
    [command : {"str_replace"}, path : {<<".", ".", "/", "x">>},
     old_str : {<<"a">>}, new_str : {<<>>}, confirm : {FALSE}]
    \cup [command : {"create"}, path : {<<".", ".", "/", "x">>},
          file_text : {<<"a">>}, confirm : {FALSE}]
    \cup [command : {"insert"}, path : {<<".", ".", "/", "x">>},
          insert_line : {0}, new_str : {<<"a">>}, confirm : {FALSE}]
    \cup [command : {"undo_edit"}, path : {<<".", ".", "/", "x">>}]

CmdInvalidPath == \E params \in InvalidPathInputs : DoCommand(params)

NextCmds ==
    CmdStrReplace \/ CmdCreate \/ CmdInsert \/ CmdUndoEdit \/ CmdInvalidPath \/ ToolReturn

SpecCmds == InitCmds /\ [][NextCmds]_vars

----------------------------------------------------------------------------
(* The editor under the same commands on File1 alone, for longer runs.     *)

OnFile1(inputs) == {p \in inputs : p.path = <<"x">>}

InitOneFile == InitCmds /\ File2 \notin DOMAIN files

OneFileCommand ==
    \E params \in OnFile1(CmdStrReplaceInputs \cup CreateInputs
                              \cup InsertInputs \cup UndoEditInputs) :
        Command(params, MaxOneFileOps)

NextOneFile == OneFileCommand \/ ToolReturn

SpecOneFile == InitOneFile /\ [][NextOneFile]_vars

----------------------------------------------------------------------------
(* The editor under view, on File1 with any number of lines around the     *)
(* limit of a view.                                                        *)

\* a file of n lines, the last of them with or without its line ending
FileOfLines(n, ended) ==
    LET all == JoinLines([i \in 1..n |-> <<"a", NL>>])
    IN  IF ended \/ n = 0 THEN all ELSE SubSeq(all, 1, Len(all) - 1)

\* the numbers of lines of the files viewed
ViewLengths == 0..2 \cup (ViewLimit - 1)..(ViewLimit + 1) \cup {MaxViewLines}

\* the start and end lines of the ranges
ViewStarts == (0 - 1)..2 \cup {MaxViewLines - ViewLimit, MaxViewLines - ViewLimit + 1,
                                MaxViewLines - ViewLimit + 2, ViewLimit + 1, MaxViewLines + 1}
ViewEnds == (0 - 2)..2 \cup (ViewLimit - 1)..(ViewLimit + 1)
                \cup (MaxViewLines - 1)..(MaxViewLines + 1)

\* the inputs of a view: no view_range, a range, or a list that is no range
ViewInputs ==
    [command : {"view"}, path : {<<"x">>}]
    \cup [command : {"view"}, path : {<<"x">>},
          view_range : {<<s, e>> : s \in ViewStarts, e \in ViewEnds} \cup {<<1>>}]

InitView ==
    /\ repo_path = <<"/", "a">> /\ allowed_folders = {} /\ ignore_patterns = <<>>
    /\ call = "idle" /\ raw = <<>> /\ res = NoRes
    /\ TruncIdle /\ SearchIdle /\ AgentIdle
    /\ \E n \in ViewLengths, ended \in BOOLEAN :
            files = (File1 :> FileOfLines(n, ended))
    /\ backups = <<>> /\ last_edits = <<>>
    /\ tool_input = <<>> /\ tool_result = <<>> /\ pre_files = <<>>
    /\ pre_backups = <<>> /\ pre_last_edits = <<>> /\ hist = <<>>
    /\ ncalls = 0

ViewCall == \E params \in ViewInputs : Command(params, MaxViews)

NextView == ViewCall \/ ToolReturn

SpecView == InitView /\ [][NextView]_vars

----------------------------------------------------------------------------
(* The agent (src/core/agent.py): process_request asks the reasoning        *)
(* service, executes the tool calls of its response one by one, appends     *)
(* their results to the conversation and asks again.  The editor is called  *)
(* through str_replace_editor, which asks the user to confirm a preview.    *)

EditorTool == "str_replace_editor"
SearchTool == "file_content_search"
UnknownTool == "unknown_tool"

ToolNotFoundMsg == "Error: Tool not found"
ToolExecErrorMsg == "Error executing tool"
RejectedMsg == "Changes were rejected by the user."
SearchResultMsg == "search result"
MissingArgumentError == "missing 1 required positional argument"
EOFError == "EOF when reading a line"

\* the answers that the user gives to "Confirm changes (yes/no): ", as
\* strip().lower() leaves them
YesAnswers == {"yes", "y"}
NoAnswers == {"no", "n"}
OtherAnswers == {"", "maybe"}

\* the inputs of the editor's tool calls: on File1, on a path outside the
\* repository, and without a path
AgentEditorInputs ==
    [command : {"view"}, path : {<<"x">>, <<".", ".", "/", "x">>}]
    \cup [command : {"str_replace"}, path : {<<"x">>}, old_str : {<<"a">>}, new_str : {<<>>}]
    \cup [command : {"str_replace"}, path : {<<"x">>}, old_str : {<<"a">>}, new_str : {<<>>},
          confirm : BOOLEAN]
    \cup ConfirmOrNot([command : {"create"}, path : {<<"x">>}, file_text : {<<"a">>}])
    \cup ConfirmOrNot([command : {"insert"}, path : {<<"x">>},
                       insert_line : {0, MaxInsertLine + 1}, new_str : {<<"a">>}])
    \cup [command : {"undo_edit"}, path : {<<"x">>}]
    \cup [command : {"undo_edit"}, path : {<<"x">>}, confirm : {TRUE}]
    \cup [command : {"view"}]

\* the tool calls that the reasoning service asks for
AgentCalls ==
    [name : {EditorTool}, input : AgentEditorInputs]
    \cup [name : {SearchTool},
          input : [search_type : {"content"}, query : {<<"a">>}]
                    \cup [search_type : {"content"}]]
    \cup [name : {UnknownTool}, input : {<<>>}]

\* DEFAULT_MODEL, and the models that get the schema-less tools
DefaultModel == "claude-3-7-sonnet-20250219"
SchemaLessModels == {"claude-3-5-sonnet-20240229", "claude-3-7-sonnet-20250219"}
OtherModel == "claude-3-opus-20240229"

\* api_params["tools"] of process_request, by the names of the tools: the
\* schema-less tools when there are any and the model is one of the two, the
\* specs of the registry otherwise
Offered ==
    IF schema_less_tools # <<>> /\ model \in SchemaLessModels
    THEN {schema_less_tools[i] : i \in DOMAIN schema_less_tools}
    ELSE tools

\* client.messages.create(**api_params): the request is sent with its tools
\* list, while the registry holds the tools
RequestSent ==
    /\ requests' = Append(requests, [tools |-> Offered, registered |-> tools])
    /\ UNCHANGED <<model, schema_less_tools>>

\* the files at the start: File1 with one of three contents, or absent
AgentFiles == {<<>>} \cup {(File1 :> c) : c \in {<<"a">>, <<"a", "a">>, <<"a", NL>>}}

\* Agent.__init__, register_text_editor_tool and register_search_tool in a
\* repository at /a
InitAgent ==
    /\ repo_path = <<"/", "a">> /\ allowed_folders = {} /\ ignore_patterns = <<>>
    /\ call = "idle" /\ raw = <<>> /\ res = NoRes
    /\ TruncIdle /\ SearchIdle
    /\ files \in AgentFiles
    /\ backups = <<>> /\ last_edits = <<>>
    /\ tool_input = <<>> /\ tool_result = <<>> /\ pre_files = <<>>
    /\ pre_backups = <<>> /\ pre_last_edits = <<>> /\ hist = <<>>
    /\ ncalls = 0
    /\ agent_pc = "idle" /\ tools = {EditorTool, SearchTool}
    /\ conversation_history = <<>>
    /\ pending = <<>> /\ tool_results = <<>> /\ waiting = <<>> /\ exec = NoExec
    /\ model = DefaultModel /\ schema_less_tools = <<EditorTool>> /\ requests = <<>>

\* ToolRegistry.get_tool(name) finds a function
Registered(name) == name \in tools

\* tool_func(**tool_input) raises TypeError before it runs: a required
\* parameter of the function is missing
MissingArgument(tc) ==
    \/ tc.name = EditorTool /\ ~({"command", "path"} \subseteq DOMAIN tc.input)
    \/ tc.name = SearchTool /\ ~({"search_type", "query"} \subseteq DOMAIN tc.input)

\* the result of _execute_tool_call when the tool function returned content;
\* the results of the calls of the model are shorter than the 10000
\* characters of truncate_text, which returns them as they are
Returned(tc, content) == [tool_use_id |-> tc.id, content |-> content, is_error |-> FALSE]

\* the result of _execute_tool_call when the tool is not registered
NotFound(tc) ==
    [tool_use_id |-> tc.id, content |-> Content(ToolNotFoundMsg, <<>>, tc.name, 0, <<>>, <<>>),
     is_error |-> TRUE]

\* a dispatch that does not flag the result of a raised exception
RaisedUnflagged(tc, e) ==
    [tool_use_id |-> tc.id, content |-> Content(ToolExecErrorMsg, <<>>, e, 0, <<>>, <<>>),
     is_error |-> FALSE]

\* the result of _execute_tool_call when the tool function raised e
Raised(tc, e) ==
    [tool_use_id |-> tc.id, content |-> Content(ToolExecErrorMsg, <<>>, e, 0, <<>>, <<>>),
     is_error |-> TRUE]

\* the agent takes the result of the tool call in hand and goes on with the
\* next one
Collect(result) ==
    /\ tool_results' = Append(tool_results, result)
    /\ pending' = Tail(pending)
    /\ waiting' = <<>>
    /\ agent_pc' = "tools"

\* TextEditorTool.handle_tool_call(params) called by str_replace_editor
HandlerCall(params, o) ==
    /\ tool_input' = params
    /\ tool_result' = [content |-> o.content, is_error |-> o.is_error]
    /\ pre_files' = files /\ pre_backups' = backups /\ pre_last_edits' = last_edits
    /\ files' = o.files /\ backups' = o.backups /\ last_edits' = o.last_edits
    /\ hist' = Recorded(ToolValidate(params.path).path, params.command, o.content.msg)

NoHandlerCall ==
    UNCHANGED <<files, backups, last_edits, tool_input, tool_result, pre_files,
                pre_backups, pre_last_edits, hist>>

\* Agent.process_request(user_input) starts
ProcessRequest ==
    /\ agent_pc = "idle"
    /\ conversation_history = <<>>
    /\ conversation_history' = <<[role |-> "user", content |-> "request"]>>
    /\ agent_pc' = "api"
    /\ NoHandlerCall
    /\ RequestSent
    /\ UNCHANGED searchVars
    /\ UNCHANGED <<pathVars, truncVars, ncalls, tools, pending, tool_results, waiting, exec>>

\* the reasoning service answers with tool calls (stop_reason "tool_use");
\* each call gets an id
ApiToolUse ==
    /\ agent_pc = "api"
    /\ \E k \in 1..(MaxAgentCalls - ncalls) : \E calls \in [1..k -> AgentCalls] :
        LET tool_calls == [i \in 1..k |->
                [name |-> calls[i].name, id |-> ncalls + i, input |-> calls[i].input]]
        IN  /\ conversation_history' =
                    Append(conversation_history,
                           [role |-> "assistant", content |-> tool_calls])
            /\ pending' = tool_calls
    /\ tool_results' = <<>>
    /\ agent_pc' = "tools"
    /\ NoHandlerCall
    /\ UNCHANGED searchVars
    /\ UNCHANGED <<pathVars, truncVars, offerVars, ncalls, tools, waiting, exec>>

\* the reasoning service answers with its final text
ApiFinal ==
    /\ agent_pc = "api"
    /\ conversation_history' =
            Append(conversation_history, [role |-> "assistant", content |-> "final"])
    /\ agent_pc' = "idle"
    /\ NoHandlerCall
    /\ UNCHANGED searchVars
    /\ UNCHANGED <<pathVars, truncVars, offerVars, ncalls, tools, pending, tool_results, waiting, exec>>

\* Agent._execute_tool_call(tool_call) on the next tool call, up to the
\* result or, in str_replace_editor, to the prompt for a confirmation
ExecuteToolCall ==
    /\ agent_pc = "tools"
    /\ pending # <<>>
    /\ LET tc == Head(pending)
           started == [NoExec EXCEPT !.id = tc.id, !.name = tc.name]
       IN  IF ~Registered(tc.name)
               THEN /\ Collect(NotFound(tc))
                    /\ exec' = started
                    /\ NoHandlerCall
           ELSE IF MissingArgument(tc)
               THEN /\ Collect(Raised(tc, MissingArgumentError))
                    /\ exec' = [started EXCEPT !.raised = MissingArgumentError]
                    /\ NoHandlerCall
           ELSE IF tc.name = SearchTool
               THEN /\ Collect(Returned(tc, Message(SearchResultMsg)))
                    /\ exec' = started
                    /\ NoHandlerCall
           ELSE \E o \in {ToolCallOutcome(tc.input)} :
                    /\ HandlerCall(tc.input, o)
                    /\ exec' = [started EXCEPT !.handler_calls = 1]
                    /\ IF o.content.msg = ConfirmEditMsg
                       THEN /\ agent_pc' = "prompt"
                            /\ waiting' = tc
                            /\ UNCHANGED <<pending, tool_results>>
                       ELSE Collect(Returned(tc, o.content))
    /\ ncalls' = ncalls + 1
    /\ UNCHANGED searchVars
    /\ UNCHANGED <<pathVars, truncVars, offerVars, tools, conversation_history>>

\* the user answers yes: str_replace_editor calls the handler again with
\* confirm False and returns its content
AnswerYes ==
    /\ agent_pc = "prompt"
    /\ \E a \in YesAnswers : exec' = [exec EXCEPT !.answers = @ + 1, !.answer = a,
                                                  !.handler_calls = @ + 1]
    /\ \E o \in {ToolCallOutcome(With(waiting.input, "confirm", FALSE))} :
        /\ HandlerCall(With(waiting.input, "confirm", FALSE), o)
        /\ Collect(Returned(waiting, o.content))
    /\ UNCHANGED searchVars
    /\ UNCHANGED <<pathVars, truncVars, offerVars, ncalls, tools, conversation_history>>

\* the user answers no: str_replace_editor returns the rejection
AnswerNo ==
    /\ agent_pc = "prompt"
    /\ \E a \in NoAnswers : exec' = [exec EXCEPT !.answers = @ + 1, !.answer = a]
    /\ Collect(Returned(waiting, Message(RejectedMsg)))
    /\ NoHandlerCall
    /\ UNCHANGED searchVars
    /\ UNCHANGED <<pathVars, truncVars, offerVars, ncalls, tools, conversation_history>>

\* the user answers something else: str_replace_editor asks again
AnswerOther ==
    /\ agent_pc = "prompt"
    /\ exec.answers < MaxAnswers
    /\ \E a \in OtherAnswers : exec' = [exec EXCEPT !.answers = @ + 1, !.answer = a]
    /\ NoHandlerCall
    /\ UNCHANGED searchVars
    /\ UNCHANGED <<pathVars, truncVars, offerVars, ncalls, tools, conversation_history, agent_pc,
                   pending, tool_results, waiting>>

\* the input has ended: input() raises EOFError, which leaves
\* str_replace_editor and is caught in _execute_tool_call
AnswerEndOfInput ==
    /\ agent_pc = "prompt"
    /\ exec' = [exec EXCEPT !.raised = EOFError]
    /\ Collect(Raised(waiting, EOFError))
    /\ NoHandlerCall
    /\ UNCHANGED searchVars
    /\ UNCHANGED <<pathVars, truncVars, offerVars, ncalls, tools, conversation_history>>

\* blocks in the reverse of the order of the results
ResultBlocksReversed(results) ==
    [i \in DOMAIN results |->
        [type |-> "tool_result", tool_use_id |-> results[Len(results) + 1 - i].tool_use_id,
         content |-> results[Len(results) + 1 - i].content,
         is_error |-> results[Len(results) + 1 - i].is_error]]

\* the blocks of the tool results: is_error is in a block when it is in the
\* result and true
ResultBlocks(results) ==
    [i \in DOMAIN results |->
        [type |-> "tool_result", tool_use_id |-> results[i].tool_use_id,
         content |-> results[i].content, is_error |-> results[i].is_error]]

\* all tool calls of the response are executed: their results go to the
\* conversation as a user message and the loop goes on
AppendToolResults ==
    /\ agent_pc = "tools"
    /\ pending = <<>>
    /\ conversation_history' =
            Append(conversation_history,
                   [role |-> "user", content |-> ResultBlocks(tool_results)])
    /\ agent_pc' = "api"
    /\ NoHandlerCall
    /\ RequestSent
    /\ UNCHANGED searchVars
    /\ UNCHANGED <<pathVars, truncVars, ncalls, tools, pending, tool_results, waiting, exec>>

NextAgent ==
    \/ ProcessRequest \/ ApiToolUse \/ ApiFinal \/ ExecuteToolCall
    \/ AnswerYes \/ AnswerNo \/ AnswerOther \/ AnswerEndOfInput
    \/ AppendToolResults

SpecAgent == InitAgent /\ [][NextAgent]_vars

----------------------------------------------------------------------------
(* The tools that the agent offers to the reasoning service: tools are     *)
(* registered and requests are sent, for each model.                       *)

InitOffer ==
    /\ PathIdle /\ TruncIdle /\ SearchIdle /\ EditIdle
    /\ agent_pc = "idle" /\ tools = {} /\ conversation_history = <<>>
    /\ pending = <<>> /\ tool_results = <<>> /\ waiting = <<>> /\ exec = NoExec
    /\ model \in SchemaLessModels \cup {OtherModel}
    /\ schema_less_tools = <<>> /\ requests = <<>>

\* register_text_editor_tool(agent): the tool goes to the registry and its
\* schema-less spec to schema_less_tools
RegisterTextEditorTool ==
    /\ Len(schema_less_tools) < MaxRegistrations
    /\ tools' = tools \cup {EditorTool}
    /\ schema_less_tools' = Append(schema_less_tools, EditorTool)
    /\ UNCHANGED searchVars
    /\ UNCHANGED <<pathVars, truncVars, editVars, agent_pc, conversation_history, pending,
                   tool_results, waiting, exec, model, requests>>

\* register_search_tool(agent): the tool goes to the registry
RegisterSearchTool ==
    /\ SearchTool \notin tools
    /\ tools' = tools \cup {SearchTool}
    /\ UNCHANGED searchVars
    /\ UNCHANGED <<pathVars, truncVars, editVars, agent_pc, conversation_history, pending,
                   tool_results, waiting, exec, offerVars>>

\* process_request up to client.messages.create
SendRequest ==
    /\ Len(requests) < MaxSent
    /\ RequestSent
    /\ UNCHANGED searchVars
    /\ UNCHANGED <<pathVars, truncVars, editVars, agent_pc, tools, conversation_history,
                   pending, tool_results, waiting, exec>>

NextOffer == RegisterTextEditorTool \/ RegisterSearchTool \/ SendRequest

SpecOffer == InitOffer /\ [][NextOffer]_vars

----------------------------------------------------------------------------
(* The length of what the agent delivers (src/core/agent.py,                *)
(* _execute_tool_call): the text of a tool result, character by character. *)

\* "Error: Tool '" and "' not found"
ToolNotFoundHead ==
    <<"E", "r", "r", "o", "r", ":", " ", "T", "o", "o", "l", " ", "'">>
ToolNotFoundTail ==
    <<"'", " ", "n", "o", "t", " ", "f", "o", "u", "n", "d">>

\* "Error executing tool '" and "': "
ToolExecErrorHead ==
    <<"E", "r", "r", "o", "r", " ", "e", "x", "e", "c", "u", "t", "i", "n",
      "g", " ", "t", "o", "o", "l", " ", "'">>
ToolExecErrorMid ==
    <<"'", ":", " ">>

\* the name of the editor's tool
EditorToolName ==
    <<"s", "t", "r", "_", "r", "e", "p", "l", "a", "c", "e", "_", "e", "d",
      "i", "t", "o", "r">>

\* str(e) of the TypeError of a call of str_replace_editor without path, and
\* of the EOFError of input()
MissingPathText ==
    <<"r", "e", "g", "i", "s", "t", "e", "r", "_", "t", "e", "x", "t", "_",
      "e", "d", "i", "t", "o", "r", "_", "t", "o", "o", "l", ".", "<", "l",
      "o", "c", "a", "l", "s", ">", ".", "s", "t", "r", "_", "r", "e", "p",
      "l", "a", "c", "e", "_", "e", "d", "i", "t", "o", "r", "(", ")", " ",
      "m", "i", "s", "s", "i", "n", "g", " ", "1", " ", "r", "e", "q", "u",
      "i", "r", "e", "d", " ", "p", "o", "s", "i", "t", "i", "o", "n", "a",
      "l", " ", "a", "r", "g", "u", "m", "e", "n", "t", ":", " ", "'", "p",
      "a", "t", "h", "'">>
EndOfInputText ==
    <<"E", "O", "F", " ", "w", "h", "e", "n", " ", "r", "e", "a", "d", "i",
      "n", "g", " ", "a", " ", "l", "i", "n", "e">>

\* the lengths of the texts: short ones, those around the budget of
\* truncate_text, and a long one
DeliverLengths ==
    0..Margin \cup (DefaultMaxChars - Margin)..(DefaultMaxChars + Margin) \cup {MaxRawLen}

\* what a tool function returns: a text of one of the lengths
RawOutputs == {TextOf(length, first) : length \in DeliverLengths, first \in {"a", "b"}}

\* the tool names that the reasoning service asks for and that are not
\* registered: of lengths around the budget less the message around the name
UnknownNames ==
    {TextOf(length, "n") :
        length \in 1..2 \cup (DefaultMaxChars - Len(ToolNotFoundHead) - Len(ToolNotFoundTail)
                                - 1)..(DefaultMaxChars - Len(ToolNotFoundHead)
                                        - Len(ToolNotFoundTail) + 1)
                        \cup {DefaultMaxChars}}

InitDeliver ==
    /\ PathIdle /\ TruncIdle /\ SearchIdle /\ EditIdle
    /\ agent_pc = "tools" /\ tools = {EditorTool, SearchTool}
    /\ conversation_history = <<>>
    /\ pending = <<>> /\ tool_results = <<>> /\ waiting = <<>> /\ exec = NoExec
    /\ model = DefaultModel /\ schema_less_tools = <<EditorTool>> /\ requests = <<>>

\* _execute_tool_call on a call of a registered tool whose function returns
\* the text t: the content is truncate_text(str(result))
DeliverReturned ==
    /\ call = "idle"
    /\ \E t \in RawOutputs :
        /\ text' = t
        /\ out' = TruncateText(t, DefaultMaxChars, TRUE)
    /\ max_chars' = DefaultMaxChars /\ add_note' = TRUE
    /\ exec' = [NoExec EXCEPT !.name = EditorTool, !.handler_calls = 1]
    /\ call' = "execute_tool_call"
    /\ UNCHANGED searchVars
    /\ UNCHANGED <<repo_path, allowed_folders, ignore_patterns, raw, res, editVars, offerVars,
                   agent_pc, tools, conversation_history, pending, tool_results, waiting>>

\* _execute_tool_call on a call of a registered tool whose function raises:
\* the content is the error message, as it is
DeliverRaised ==
    /\ call = "idle"
    /\ \E e \in {<<EditorTool, EditorToolName, MissingArgumentError, MissingPathText>>,
                 <<EditorTool, EditorToolName, EOFError, EndOfInputText>>} :
        /\ text' = e[4]
        /\ out' = ToolExecErrorHead \o e[2] \o ToolExecErrorMid \o e[4]
        /\ exec' = [NoExec EXCEPT !.name = e[1], !.raised = e[3]]
    /\ max_chars' = DefaultMaxChars /\ add_note' = TRUE
    /\ call' = "execute_tool_call"
    /\ UNCHANGED searchVars
    /\ UNCHANGED <<repo_path, allowed_folders, ignore_patterns, raw, res, editVars, offerVars,
                   agent_pc, tools, conversation_history, pending, tool_results, waiting>>

\* _execute_tool_call on a call of a tool that is not registered: the
\* content is the error message with the name, as it is
DeliverNotFound ==
    /\ call = "idle"
    /\ \E name \in UnknownNames :
        /\ text' = name
        /\ out' = ToolNotFoundHead \o name \o ToolNotFoundTail
    /\ max_chars' = DefaultMaxChars /\ add_note' = TRUE
    /\ exec' = [NoExec EXCEPT !.name = UnknownTool]
    /\ call' = "execute_tool_call"
    /\ UNCHANGED searchVars
    /\ UNCHANGED <<repo_path, allowed_folders, ignore_patterns, raw, res, editVars, offerVars,
                   agent_pc, tools, conversation_history, pending, tool_results, waiting>>

\* the result is taken
DeliverEnd ==
    /\ call = "execute_tool_call"
    /\ call' = "idle" /\ text' = <<>> /\ max_chars' = 0 /\ add_note' = TRUE /\ out' = <<>>
    /\ exec' = NoExec
    /\ UNCHANGED searchVars
    /\ UNCHANGED <<repo_path, allowed_folders, ignore_patterns, raw, res, editVars, offerVars,
                   agent_pc, tools, conversation_history, pending, tool_results, waiting>>

NextDeliver == DeliverReturned \/ DeliverRaised \/ DeliverNotFound \/ DeliverEnd

SpecDeliver == InitDeliver /\ [][NextDeliver]_vars

----------------------------------------------------------------------------
(* The listing of the files of a directory: PathValidator.get_all_files    *)
(* walks the tree of the files that `files` holds.                         *)

\* the components of the directory or file that the system finds at path
Resolved(path) == Segs(AbsPath(path))

\* the names of the entries of the directory at root: the files when
\* is_file, the subdirectories otherwise
EntryNames(root, is_file) ==
    LET here == Resolved(root)
        n == Len(here)
    IN  {Segs(f)[n + 1] : f \in {g \in DOMAIN files :
            /\ Len(Segs(g)) > n /\ SubSeq(Segs(g), 1, n) = here
            /\ (Len(Segs(g)) = n + 1) = is_file}}

RECURSIVE InScanOrder(_)
\* os.scandir yields the entries in an order of the file system's choosing
InScanOrder(names) ==
    IF names = {} THEN <<>>
    ELSE LET name == CHOOSE x \in names : TRUE
         IN  <<name>> \o InScanOrder(names \ {name})

RECURSIVE Flatten(_)
Flatten(seqs) == IF seqs = <<>> THEN <<>> ELSE Head(seqs) \o Flatten(Tail(seqs))

\* a slip: the subdirectory is tested by its name alone
KeptDirsByName(root, dirs) ==
    SelectSeq(dirs, LAMBDA d : ~IsPathIgnored(d))

\* dirs[:] = [d for d in dirs if not self.is_path_ignored(os.path.join(root, d))]
KeptDirs(root, dirs) ==
    SelectSeq(dirs, LAMBDA d : ~IsPathIgnored(PathJoin(root, d)))

RECURSIVE WalkFrom(_)
\* the loop of get_all_files over os.walk, from root on: the files of root
\* that are neither ignored nor denied, then the same for each subdirectory
\* that was kept
WalkFrom(root) ==
    LET dirs == KeptDirs(root, InScanOrder(EntryNames(root, FALSE)))
        names == InScanOrder(EntryNames(root, TRUE))
        file_paths == [i \in 1..Len(names) |-> PathJoin(root, names[i])]
    IN  SelectSeq(file_paths, LAMBDA p : ~IsPathIgnored(p) /\ IsPathAllowed(p))
            \o Flatten([i \in 1..Len(dirs) |-> WalkFrom(PathJoin(root, dirs[i]))])

\* PathValidator.get_all_files(directory)
GetAllFiles(directory) ==
    WalkFrom(IF ~IsAbs(directory) THEN PathJoin(repo_path, directory) ELSE directory)

\* the files of the trees that are listed: in the repository, in a
\* subdirectory, in a subdirectory of it, and outside the repository
ListedPaths ==
    {<<"/", "a", "/", "b">>, <<"/", "a", "/", "x", "/", "b">>,
     <<"/", "a", "/", "x", "/", "a", "/", "b">>, <<"/", "a", "/", "a", "/", "b">>,
     <<"/", "x", "/", "b">>}

\* the contents of .toolignore for the listings
ListPatternLists ==
    {<<>>, << <<"*", "/", "x">> >>, << <<"x">> >>, << <<"*", "b">> >>,
     << <<"/", "a", "/", "x", "/", "a">> >>, << <<"/", "a", "/", "a", "/", "b">> >>}

\* the directory arguments
ListDirectories ==
    {<<".">>, <<"x">>, <<"x", "/", "a">>, <<".", "/", "x", "/">>, <<".", ".">>,
     <<"/", "x">>, <<"/", "a", "/", "x">>, <<"/", "/", "a">>, <<"b">>}

InitList ==
    /\ repo_path = <<"/", "a">>
    /\ allowed_folders \in {{}, {<<"/", "x">>}}
    /\ ignore_patterns \in ListPatternLists
    /\ call = "idle" /\ raw = <<>> /\ res = NoRes
    /\ TruncIdle /\ SearchIdle /\ AgentIdle
    /\ files \in UNION {[D -> {<<>>}] : D \in SUBSET ListedPaths}
    /\ backups = <<>> /\ last_edits = <<>>
    /\ tool_input = <<>> /\ tool_result = <<>> /\ pre_files = <<>>
    /\ pre_backups = <<>> /\ pre_last_edits = <<>> /\ hist = <<>>
    /\ ncalls = 0

\* a call of PathValidator.get_all_files(directory)
GetAllFilesCall ==
    /\ call = "idle"
    /\ \E directory \in ListDirectories :
        /\ raw' = directory
        /\ res' = [is_valid |-> TRUE, msg |-> "", path |-> <<>>, handler |-> "none",
                   all_files |-> GetAllFiles(directory)]
    /\ call' = "get_all_files"
    /\ UNCHANGED searchVars
    /\ UNCHANGED <<agentVars, repo_path, allowed_folders, ignore_patterns, truncVars, editVars>>

NextList == GetAllFilesCall \/ Return

SpecList == InitList /\ [][NextList]_vars

----------------------------------------------------------------------------
(* The search tool: SearchTool and the formatting of its results by the    *)
(* OutputLimiter.  The files searched are those that `files` holds.        *)

\* the byte that marks a file as binary
NUL == "NUL"

\* str.lower() of a character of the files searched
Lower(c) == IF c = "X" THEN "x" ELSE IF c = "A" THEN "a" ELSE c

\* what re.IGNORECASE makes of s when the search is not case sensitive
Folded(s, case_sensitive) ==
    IF case_sensitive THEN s ELSE [i \in 1..Len(s) |-> Lower(s[i])]

Whitespace == {" ", "\t", "\n", "\r", "\f"}

RECURSIVE RStrip(_)
\* s.rstrip()
RStrip(s) ==
    IF s # <<>> /\ s[Len(s)] \in Whitespace THEN RStrip(SubSeq(s, 1, Len(s) - 1)) ELSE s

\* the content of the file that the system finds at file_path
ReadFile(file_path) ==
    files[CHOOSE f \in DOMAIN files : Segs(f) = Resolved(file_path)]

\* SearchTool._search_file_content(query, file_path, case_sensitive)
SearchFileContent(query, file_path, case_sensitive) ==
    LET lines == ReadLines(ReadFile(file_path))
        found(i) == Count(Folded(lines[i], case_sensitive), Folded(query, case_sensitive)) > 0
        context(i) ==
            LET context_start == Max(0, (i - 1) - 2)
                context_end == Min(Len(lines), (i - 1) + 3)
            IN  [k \in 1..(context_end - context_start) |->
                    [line_number |-> context_start + k,
                     content |-> RStrip(lines[context_start + k]),
                     is_match |-> context_start + k = i]]
        hits == SelectSeq([i \in 1..Len(lines) |-> i], found)
    IN  [k \in 1..Len(hits) |->
            [line_number |-> hits[k], content |-> RStrip(lines[hits[k]]),
             context |-> context(hits[k])]]

\* 1024 * 1024: larger files are skipped
MaxSearchedSize == 1048576
\* the bytes read to tell a binary file
BinaryProbe == 1024

\* b'\0' in f.read(1024)
IsBinary(data) == \E i \in 1..Min(Len(data), BinaryProbe) : data[i] = NUL

RECURSIVE SearchFilesFrom(_, _, _, _, _)
\* the loop of _search_content_in_files from the i-th file on: results and
\* total_matches are what the files before it left
SearchFilesFrom(all_files, i, acc, total_matches, p) ==
    IF i > Len(all_files) THEN acc
    ELSE LET file_path == all_files[i]
             data == ReadFile(file_path)
         IN  IF Len(data) > MaxSearchedSize \/ IsBinary(data)
                 THEN SearchFilesFrom(all_files, i + 1, acc, total_matches, p)
             ELSE LET found == SearchFileContent(p.query, file_path, p.case_sensitive)
                      file_matches == Slice(found, p.max_per_file)
                      total == total_matches + Len(file_matches)
                      acc2 == Append(acc, [path |-> file_path, matches |-> file_matches])
                  IN  IF found = <<>>
                          THEN SearchFilesFrom(all_files, i + 1, acc, total_matches, p)
                      ELSE IF total >= p.max_results THEN acc2
                      ELSE SearchFilesFrom(all_files, i + 1, acc2, total, p)

RECURSIVE LimitFrom(_, _, _, _, _, _)
\* the loop of limit_content_matches from the i-th file of results on
LimitFrom(rs, i, limited_results, total_matches, max_total_matches, max_matches_per_file) ==
    IF i > Len(rs) THEN limited_results
    ELSE LET file_matches == Slice(rs[i].matches, max_matches_per_file)
             limited == Append(limited_results, [path |-> rs[i].path, matches |-> file_matches])
             total == total_matches + Len(file_matches)
         IN  IF total >= max_total_matches THEN limited
             ELSE LimitFrom(rs, i + 1, limited, total, max_total_matches, max_matches_per_file)

\* OutputLimiter.limit_content_matches(results, max_total_matches,
\* max_matches_per_file): a mapping in the order of its keys
LimitContentMatches(rs, max_total_matches, max_matches_per_file) ==
    LimitFrom(rs, 1, <<>>, 0, max_total_matches, max_matches_per_file)

\* SearchTool._search_content_in_files(query, directory, case_sensitive,
\* max_results, max_per_file), p holding the arguments but the directory
SearchContentInFiles(directory, p) ==
    LimitContentMatches(SearchFilesFrom(GetAllFiles(directory), 1, <<>>, 0, p),
                        p.max_results, p.max_per_file)

\* the pieces of the texts of format_content_search_results
NoContentHead ==
    <<"N", "o", " ", "c", "o", "n", "t", "e", "n", "t", " ", "m", "a", "t", "c", "h",
      "e", "s", " ", "f", "o", "u", "n", "d", " ", "f", "o", "r", " ", "'">>

Quote ==
    <<"'">>

FoundHead ==
    <<"F", "o", "u", "n", "d", " ">>

MatchesFor ==
    <<" ", "m", "a", "t", "c", "h", "e", "s", " ", "f", "o", "r", " ", "'">>

QuoteIn ==
    <<"'", " ", "i", "n", " ">>

FilesTail ==
    <<" ", "f", "i", "l", "e", "s", ":", "\n", "\n">>

FileHead ==
    <<"F", "i", "l", "e", ":", " ">>

OpenParen ==
    <<" ", "(">>

MatchesTail ==
    <<" ", "m", "a", "t", "c", "h", "e", "s", ")", "\n">>

LineHead ==
    <<"L", "i", "n", "e", " ">>

Colon ==
    <<":", " ">>

ContextLine ==
    <<" ", " ", "C", "o", "n", "t", "e", "x", "t", ":", "\n">>

MatchPrefix ==
    <<" ", " ", ">", " ">>

PlainPrefix ==
    <<" ", " ", " ", " ">>

Indent ==
    <<" ", " ">>

MoreFilesHead ==
    <<"\n", "[">>

MoreFilesTail ==
    <<" ", "m", "o", "r", "e", " ", "f", "i", "l", "e", "s", " ", "w", "i", "t", "h",
      " ", "m", "a", "t", "c", "h", "e", "s", " ", "n", "o", "t", " ", "s", "h", "o",
      "w", "n", " ", "d", "u", "e", " ", "t", "o", " ", "o", "u", "t", "p", "u", "t",
      " ", "s", "i", "z", "e", " ", "l", "i", "m", "i", "t", "]">>

MoreMatchesHead ==
    <<" ", " ", "[", ".", ".", ".", " ", "a", "n", "d", " ">>

MoreMatchesTail ==
    <<" ", "m", "o", "r", "e", " ", "m", "a", "t", "c", "h", "e", "s", " ", "n", "o",
      "t", " ", "s", "h", "o", "w", "n", " ", "d", "u", "e", " ", "t", "o", " ", "o",
      "u", "t", "p", "u", "t", " ", "s", "i", "z", "e", " ", "l", "i", "m", "i", "t",
      "]", "\n">>

\* the pieces of the texts of format_file_search_results
NoFilesHead ==
    <<"N", "o", " ", "f", "i", "l", "e", "s", " ", "f", "o", "u", "n", "d", " ", "m",
      "a", "t", "c", "h", "i", "n", "g", " ", "'">>

FilesMatching ==
    <<" ", "f", "i", "l", "e", "s", " ", "m", "a", "t", "c", "h", "i", "n", "g", " ",
      "'">>

QuoteColon ==
    <<"'", ":", "\n", "\n">>

Dot ==
    <<".", " ">>

ScoreHead ==
    <<" ", "(", "S", "c", "o", "r", "e", ":", " ">>

ScoreTail ==
    <<")", "\n">>

MoreResultsTail ==
    <<" ", "m", "o", "r", "e", " ", "m", "a", "t", "c", "h", "e", "s", " ", "n", "o",
      "t", " ", "s", "h", "o", "w", "n", " ", "d", "u", "e", " ", "t", "o", " ", "o",
      "u", "t", "p", "u", "t", " ", "s", "i", "z", "e", " ", "l", "i", "m", "i", "t",
      "]">>

\* the text of a match: its line, then the lines of its context
MatchContent(match) ==
    LET ctx(k) ==
            (IF match.context[k].is_match THEN MatchPrefix ELSE PlainPrefix)
                \o LineHead \o Str(match.context[k].line_number) \o Colon
                \o match.context[k].content \o <<NL>>
    IN  Indent \o LineHead \o Str(match.line_number) \o Colon \o match.content \o <<NL>>
            \o ContextLine
            \o Flatten([k \in 1..Len(match.context) |-> ctx(k)])
            \o <<NL>>

RECURSIVE FormatMatchesFrom(_, _, _, _, _)
\* the inner loop of format_content_search_results from the k-th match of
\* a file on; st holds content, files_shown and matches_shown, and the
\* numbers of the notes written so far
FormatMatchesFrom(matches, k, st, total_matches, budget) ==
    IF k > Len(matches) THEN st
    ELSE LET match_content == MatchContent(matches[k])
             remaining_matches == total_matches - st.matches_shown
         IN  IF Len(st.content) + Len(match_content) > budget
                 THEN [st EXCEPT
                          !.content = @ \o MoreMatchesHead \o Str(remaining_matches)
                                        \o MoreMatchesTail,
                          !.match_notes = Append(@, remaining_matches)]
             ELSE FormatMatchesFrom(matches, k + 1,
                      [st EXCEPT !.content = @ \o match_content, !.matches_shown = @ + 1],
                      total_matches, budget)

RECURSIVE FormatFilesFrom(_, _, _, _, _)
\* the outer loop of format_content_search_results from the i-th file on
FormatFilesFrom(rs, i, st, total_matches, budget) ==
    IF i > Len(rs) THEN st
    ELSE LET file_header == FileHead \o rs[i].path \o OpenParen \o Str(Len(rs[i].matches))
                                \o MatchesTail
             remaining_files == Len(rs) - st.files_shown
         IN  IF Len(st.content) + Len(file_header) > budget
                 THEN [st EXCEPT
                          !.content = @ \o MoreFilesHead \o Str(remaining_files)
                                        \o MoreFilesTail,
                          !.file_notes = Append(@, remaining_files)]
             ELSE FormatFilesFrom(rs, i + 1,
                      FormatMatchesFrom(rs[i].matches, 1,
                          [st EXCEPT !.content = @ \o file_header, !.files_shown = @ + 1],
                          total_matches, budget),
                      total_matches, budget)

RECURSIVE SumMatches(_)
\* sum(len(matches) for matches in results.values())
SumMatches(rs) == IF rs = <<>> THEN 0 ELSE Len(Head(rs).matches) + SumMatches(Tail(rs))

\* OutputLimiter.format_content_search_results(results, query, max_chars):
\* the text returned as content, with the counters of the loops
FormatContentSearchResults(rs, query, budget) ==
    IF rs = <<>>
    THEN [content |-> NoContentHead \o query \o Quote, files_shown |-> 0,
          matches_shown |-> 0, file_notes |-> <<>>, match_notes |-> <<>>]
    ELSE LET total_matches == SumMatches(rs)
         IN  FormatFilesFrom(rs, 1,
                 [content |-> FoundHead \o Str(total_matches) \o MatchesFor \o query
                                 \o QuoteIn \o Str(Len(rs)) \o FilesTail,
                  files_shown |-> 0, matches_shown |-> 0,
                  file_notes |-> <<>>, match_notes |-> <<>>],
                 total_matches, budget)

RECURSIVE FormatLinesFrom(_, _, _, _)
\* the loop of format_file_search_results from the i-th result on; st holds
\* content, the number of lines written and the numbers of the notes
FormatLinesFrom(rs, i, st, budget) ==
    IF i > Len(rs) THEN st
    ELSE LET line == Str(i) \o Dot \o rs[i].path \o ScoreHead \o Str(rs[i].score)
                         \o ScoreTail
             remaining == Len(rs) - i + 1
         IN  IF Len(st.content) + Len(line) > budget
                 THEN [st EXCEPT
                          !.content = @ \o MoreFilesHead \o Str(remaining) \o MoreResultsTail,
                          !.notes = Append(@, remaining)]
             ELSE FormatLinesFrom(rs, i + 1,
                      [st EXCEPT !.content = @ \o line, !.lines_shown = @ + 1], budget)

\* OutputLimiter.format_file_search_results(results, query, max_chars)
FormatFileSearchResults(rs, query, budget) ==
    IF rs = <<>>
    THEN [content |-> NoFilesHead \o query \o Quote, lines_shown |-> 0, notes |-> <<>>]
    ELSE FormatLinesFrom(rs, 1,
             [content |-> FoundHead \o Str(Len(rs)) \o FilesMatching \o query \o QuoteColon,
              lines_shown |-> 0, notes |-> <<>>],
             budget)

\* the max_chars that the formatting functions take when none is given
DefaultContentChars == 10000
DefaultFileChars == 5000
\* the max_results and max_per_file of a content search when none is given
DefaultMaxResults == 50
DefaultMaxPerFile == 10

QueryRequiredMsg == "Error: query parameter is required"
InvalidDirectoryMsg == "Error: Invalid directory: "
UnknownSearchTypeMsg == "Error: Unknown search_type"

\* the outcome of SearchTool.handle_tool_call(tool_call): the results of
\* the search, and the content returned with its is_error
HandleSearch(input) ==
    LET search_type == Get(input, "search_type", "")
        query == Get(input, "query", <<>>)
        directory == Get(input, "directory", DOT)
        p == [query |-> query,
              case_sensitive |-> Get(input, "case_sensitive", FALSE),
              max_results |-> Get(input, "max_results", DefaultMaxResults),
              max_per_file |-> Get(input, "max_per_file", DefaultMaxPerFile)]
        v == ValidatePath(directory)
        rs == SearchContentInFiles(v.path, p)
    IN  IF query = <<>>
            THEN [results |-> <<>>, is_error |-> TRUE, msg |-> QueryRequiredMsg,
                  content |-> <<>>]
        ELSE IF search_type # "content"
            THEN [results |-> <<>>, is_error |-> TRUE, msg |-> UnknownSearchTypeMsg,
                  content |-> <<>>]
        ELSE IF ~v.is_valid
            THEN [results |-> <<>>, is_error |-> TRUE, msg |-> InvalidDirectoryMsg,
                  content |-> <<>>]
        ELSE [results |-> rs, is_error |-> FALSE, msg |-> "",
              content |-> FormatContentSearchResults(rs, query, DefaultContentChars).content]

\* the files that are searched: one in the repository, one in a subdirectory
SearchedPaths == {<<"/", "a", "/", "b">>, <<"/", "a", "/", "x", "/", "b">>}

\* their contents: one line that matches, one that does not, two that
\* match, four lines of which three match, and a binary file
SearchedContents ==
    {<<"x", NL>>, <<"a", NL>>, <<"x", NL, "x", NL>>,
     <<"X", NL, "a", "x", NL, "a", NL, "x">>, <<"x", NUL>>}

\* the inputs of the search tool
SearchInputs ==
    {[search_type |-> "content", query |-> <<"x">>],
     [search_type |-> "content", query |-> <<>>],
     [search_type |-> "grep", query |-> <<"x">>],
     [search_type |-> "content", query |-> <<"x">>, directory |-> <<".", ".">>]}
    \cup {[search_type |-> "content", query |-> <<"x">>, directory |-> d,
           case_sensitive |-> cs, max_results |-> mr, max_per_file |-> mpf] :
            d \in {DOT, <<"x">>}, cs \in BOOLEAN,
            mr \in 1..MaxMaxResults, mpf \in 1..MaxMaxPerFile}

InitSearch ==
    /\ repo_path = <<"/", "a">> /\ allowed_folders = {}
    /\ ignore_patterns \in {<<>>, << <<"*", "/", "x">> >>}
    /\ call = "idle" /\ raw = <<>> /\ res = NoRes
    /\ TruncIdle /\ SearchIdle /\ AgentIdle
    /\ files \in UNION {[D -> SearchedContents] : D \in SUBSET SearchedPaths}
    /\ backups = <<>> /\ last_edits = <<>>
    /\ tool_input = <<>> /\ tool_result = <<>> /\ pre_files = <<>>
    /\ pre_backups = <<>> /\ pre_last_edits = <<>> /\ hist = <<>>
    /\ ncalls = 0

\* a call of SearchTool.handle_tool_call
HandleSearchCall ==
    /\ call = "idle"
    /\ \E input \in SearchInputs :
        \E o \in {HandleSearch(input)} :
            /\ search_input' = input
            /\ search_results' = o.results
            /\ search_content' = [is_error |-> o.is_error, msg |-> o.msg, content |-> o.content]
    /\ call' = "search"
    /\ UNCHANGED <<agentVars, repo_path, allowed_folders, ignore_patterns, raw, res,
                   truncVars, editVars>>

\* the call returns
SearchReturn ==
    /\ call \in {"search", "format_content", "format_files"}
    /\ call' = "idle"
    /\ search_input' = <<>> /\ search_results' = <<>> /\ search_content' = <<>>
    /\ UNCHANGED <<agentVars, repo_path, allowed_folders, ignore_patterns, raw, res,
                   truncVars, editVars>>

NextSearch == HandleSearchCall \/ SearchReturn

SpecSearch == InitSearch /\ [][NextSearch]_vars

----------------------------------------------------------------------------
(* The formatting functions on the results of searches, for each budget of *)
(* characters.                                                             *)

\* a line of sixty-one characters that matches
LongLine == <<"x">> \o [i \in 1..LongLineTail |-> "a"] \o <<NL>>

FormattedPaths ==
    {<<"/", "a", "/", "b">>, <<"/", "a", "/", "x", "/", "b">>,
     <<"/", "a", "/", "a", "/", "b">>}

FormattedContents == {<<"x", NL>>, <<"x", NL, "x", NL>>, LongLine}

\* the max_chars of the formatting calls
Budgets == {40, 80, 120, 200, 300, DefaultFileChars, DefaultContentChars}

\* the scores that fuzz.partial_ratio gives to the files that are kept
Scores == {60, 100}

InitFormat ==
    /\ repo_path = <<"/", "a">> /\ allowed_folders = {} /\ ignore_patterns = <<>>
    /\ call = "idle" /\ raw = <<>> /\ res = NoRes
    /\ TruncIdle /\ SearchIdle /\ AgentIdle
    /\ files \in UNION {[D -> FormattedContents] : D \in SUBSET FormattedPaths}
    /\ backups = <<>> /\ last_edits = <<>>
    /\ tool_input = <<>> /\ tool_result = <<>> /\ pre_files = <<>>
    /\ pre_backups = <<>> /\ pre_last_edits = <<>> /\ hist = <<>>
    /\ ncalls = 0

\* the matches of _fuzzy_search_files: the files with their scores, the
\* highest first
FileMatches ==
    LET all_files == GetAllFiles(DOT)
    IN  {[i \in 1..Len(all_files) |-> [path |-> all_files[i], score |-> scores[i]]] :
            scores \in {s \in [1..Len(all_files) -> Scores] :
                            \A i, j \in 1..Len(all_files) : i < j => s[i] >= s[j]}}

\* a call of OutputLimiter.format_content_search_results on the results of
\* a content search
FormatContentCall ==
    /\ call = "idle"
    /\ \E budget \in Budgets :
        \E rs \in {SearchContentInFiles(repo_path,
                      [query |-> <<"x">>, case_sensitive |-> FALSE,
                       max_results |-> DefaultMaxResults,
                       max_per_file |-> DefaultMaxPerFile])} :
            /\ search_input' = [query |-> <<"x">>, max_chars |-> budget]
            /\ search_results' = rs
            /\ search_content' = FormatContentSearchResults(rs, <<"x">>, budget)
    /\ call' = "format_content"
    /\ UNCHANGED <<agentVars, repo_path, allowed_folders, ignore_patterns, raw, res,
                   truncVars, editVars>>

\* a call of OutputLimiter.format_file_search_results on the results of a
\* file search
FormatFilesCall ==
    /\ call = "idle"
    /\ \E budget \in Budgets, rs \in FileMatches :
        /\ search_input' = [query |-> <<"b">>, max_chars |-> budget]
        /\ search_results' = rs
        /\ search_content' = FormatFileSearchResults(rs, <<"b">>, budget)
    /\ call' = "format_files"
    /\ UNCHANGED <<agentVars, repo_path, allowed_folders, ignore_patterns, raw, res,
                   truncVars, editVars>>

NextFormat == FormatContentCall \/ FormatFilesCall \/ SearchReturn

SpecFormat == InitFormat /\ [][NextFormat]_vars

----------------------------------------------------------------------------
(* What the claims about str_replace speak of.                             *)

\* the places where sub occurs in s
Places(s, sub) == {i \in 1..(Len(s) - Len(sub) + 1) : SubSeq(s, i, i + Len(sub) - 1) = sub}

\* s with the Len(old) characters at place i replaced by new
ReplacedAt(s, i, old, new) ==
    SubSeq(s, 1, i - 1) \o new \o SubSeq(s, i + Len(old), Len(s))

\* the last call was str_replace with a non-empty old_str on a file that
\* existed, named by a plain relative path
StrReplaceOnFile ==
    /\ call = "handle_tool_call"
    /\ tool_input.command = "str_replace"
    /\ PlainRel(tool_input.path)
    /\ PathJoin(repo_path, tool_input.path) \in DOMAIN pre_files
    /\ tool_input.old_str # <<>>

\* what the claim says of a call on content c with old_str at the places ps
StrReplaceAsClaimed(target, c, ps) ==
    LET k == Cardinality(ps)
        msg == tool_result.content.msg
    IN  /\ k = 0 => msg = TextNotFoundMsg
        /\ k > 1 => (msg = MultipleMsg /\ tool_result.content.n = k)
        /\ k = 1 =>
            IF Get(tool_input, "confirm", TRUE)
            THEN msg = ConfirmEditMsg /\ files = pre_files
            ELSE /\ msg = ReplacedMsg
                 /\ files = Put(pre_files, target,
                               ReplacedAt(c, CHOOSE i \in ps : TRUE,
                                          tool_input.old_str, tool_input.new_str))

\* C10: str_replace on an existing file with a non-empty old_str that occurs
\* k times: k = 0 gives the not-found error, k > 1 the multiple-match error
\* reporting k, and k = 1 a preview when confirm is true or absent, the file
\* with that occurrence replaced when confirm is false.
C10_StrReplaceByOccurrences ==
    StrReplaceOnFile =>
        LET target == PathJoin(repo_path, tool_input.path)
            c == pre_files[target]
        IN  StrReplaceAsClaimed(target, c, Places(c, tool_input.old_str))

\* the same holds of every call whose occurrences of old_str do not overlap
C10_HoldsWithoutOverlap ==
    StrReplaceOnFile =>
        LET target == PathJoin(repo_path, tool_input.path)
            c == pre_files[target]
            ps == Places(c, tool_input.old_str)
        IN  (\A i, j \in ps : i < j => i + Len(tool_input.old_str) <= j)
                => StrReplaceAsClaimed(target, c, ps)

\* a committed replacement of the only occurrence
C10_CommitReached ==
    /\ StrReplaceOnFile
    /\ tool_result.content.msg = ReplacedMsg
    /\ files # pre_files

----------------------------------------------------------------------------
(* What the claims about the commands speak of.                            *)

\* the validated path of the last call
Target == ToolValidate(tool_input.path).path

\* the last call was a str_replace, a create or an insert that did not
\* commit: it returned a preview or one of the errors of these commands
NotCommitted ==
    /\ call = "handle_tool_call"
    /\ tool_input.command \in {"str_replace", "create", "insert"}
    /\ tool_result.content.msg \in
            {ConfirmEditMsg, TextNotFoundMsg, MultipleMsg, InvalidInsertLineMsg,
             FileNotFoundMsg, AlreadyExistsMsg}

\* C11: a str_replace, create or insert that returns a preview or is
\* rejected with an error leaves the files, every file of the backup store
\* and the edit records exactly as they were before the call.
C11_NoMutationWithoutCommit ==
    NotCommitted =>
        /\ files = pre_files
        /\ backups = pre_backups
        /\ last_edits = pre_last_edits

\* such a call does leave the files outside the backup store and the edit
\* records as they were
C11_FilesAndRecordsKept ==
    NotCommitted => (files = pre_files /\ last_edits = pre_last_edits)

\* a preview that wrote to the backup store
C11_PreviewWroteBackup ==
    /\ NotCommitted
    /\ tool_result.content.msg = ConfirmEditMsg
    /\ backups # pre_backups

\* the last call was an undo_edit of a path whose last committed edit was by
\* the command op, with no call between the two
UndoRightAfter(op) ==
    /\ call = "handle_tool_call"
    /\ tool_input.command = "undo_edit"
    /\ Target \in DOMAIN hist
    /\ hist[Target].op = op
    /\ hist[Target].age = 1

\* C12: a committed str_replace on a path followed at once by undo_edit of
\* the path leaves the file with the content it had before the str_replace.
C12_StrReplaceUndoRoundTrip ==
    UndoRightAfter("str_replace") => FileAt(files, Target) = hist[Target].before

\* a str_replace that changed the file, undone
C12_RoundTripReached ==
    /\ UndoRightAfter("str_replace")
    /\ FileAt(pre_files, Target) # hist[Target].before
    /\ FileAt(files, Target) = hist[Target].before
    /\ tool_result.content.msg = UndidFromBackupMsg

\* the last call was a create on a path where a file was
CreateOnExisting ==
    /\ call = "handle_tool_call"
    /\ tool_input.command = "create"
    /\ Target \in DOMAIN pre_files

\* C13: a committed create on a path followed at once by undo_edit of the
\* path leaves no file at the path; and a create on a path where a file is
\* returns the already-exists error and leaves the files as they were.
C13_CreateUndoRoundTrip ==
    /\ UndoRightAfter("create") => Target \notin DOMAIN files
    /\ CreateOnExisting =>
            (tool_result.content.msg = AlreadyExistsMsg /\ files = pre_files)

\* a created file, deleted by the undo
C13_RoundTripReached ==
    /\ UndoRightAfter("create")
    /\ Target \in DOMAIN pre_files
    /\ Target \notin DOMAIN files
    /\ tool_result.content.msg = UndidCreateMsg

\* a create with confirm false on an existing file, rejected
C13_RejectionReached ==
    /\ CreateOnExisting
    /\ ~Get(tool_input, "confirm", TRUE)
    /\ tool_input.file_text # pre_files[Target]
    /\ tool_result.content.msg = AlreadyExistsMsg

\* the last call was an undo_edit
UndoCall == call = "handle_tool_call" /\ tool_input.command = "undo_edit"

\* C14: an undo_edit that succeeds removes the edit record of the path, and
\* no path is undone twice with no committed edit of it in between: undo_edit
\* succeeds only when an edit of the path was committed since its last undo.
C14_UndoConsumesRecord ==
    UndoCall =>
        /\ tool_result.content.msg \in UndoneMsgs => Target \notin DOMAIN last_edits
        /\ Target \in DOMAIN hist => hist[Target].undos <= 1
        /\ tool_result.content.msg \in UndoneMsgs => Target \in DOMAIN hist

\* the second undo in a row does not succeed
C14_SecondUndoFails ==
    (UndoCall /\ Target \in DOMAIN hist) => hist[Target].undos <= 1

\* undo_edit succeeds only on a path with a committed edit
C14_UndoOnlyAfterCommit ==
    (UndoCall /\ tool_result.content.msg \in UndoneMsgs) => Target \in DOMAIN hist

\* the last call was an undo_edit of a path with two or more committed
\* edits, and no other path has a committed edit
UndoAfterEdits ==
    /\ UndoCall
    /\ DOMAIN hist = {Target}
    /\ hist[Target].n >= 2

\* C15: after two or more committed edits of a path, and none of another
\* path, every undo_edit of the path leaves the file as it was before the
\* last committed edit: the first undo restores that content and further
\* undos restore no other.
C15_UndoRestoresLastEdit ==
    UndoAfterEdits => FileAt(files, Target) = hist[Target].before

\* the same of an undo_edit that is the call right after the last edit
C15_HoldsRightAfterEdit ==
    (UndoAfterEdits /\ hist[Target].age = 1)
        => FileAt(files, Target) = hist[Target].before

\* two edits that changed the file, the second of them undone
C15_SecondEditUndone ==
    /\ UndoAfterEdits
    /\ hist[Target].age = 1
    /\ hist[Target].before # hist[Target].earlier
    /\ FileAt(pre_files, Target) # hist[Target].before
    /\ FileAt(files, Target) = hist[Target].before

\* a line without its line ending
Chomp(line) ==
    IF line # <<>> /\ line[Len(line)] = NL THEN SubSeq(line, 1, Len(line) - 1) ELSE line

\* the lines of a content, without their line endings
LineTexts(content) ==
    LET lines == ReadLines(content) IN [i \in 1..Len(lines) |-> Chomp(lines[i])]

\* the last call was an insert with confirm false on an existing file
InsertOnFile ==
    /\ call = "handle_tool_call"
    /\ tool_input.command = "insert"
    /\ Get(tool_input, "confirm", TRUE) = FALSE
    /\ Target \in DOMAIN pre_files

\* what the claim says of an insert of s after line k of the lines old
InsertAsClaimed(old, k, s) ==
    IF 0 <= k /\ k <= Len(old)
        THEN /\ tool_result.content.msg = InsertedMsg
             /\ LineTexts(files[Target]) =
                    SubSeq(old, 1, k) \o <<s>> \o SubSeq(old, k + 1, Len(old))
        ELSE tool_result.content.msg = InvalidInsertLineMsg

\* C16: an insert with confirm false of a one-line text s after line k of a
\* file of n lines gives, for 0 <= k <= n, the file of n+1 lines that are the
\* first k lines, then s, then the other n-k lines, each as it was; and for
\* k < 0 or k > n it gives the invalid-line error.
C16_InsertAddsOneLine ==
    InsertOnFile =>
        InsertAsClaimed(LineTexts(pre_files[Target]), tool_input.insert_line,
                        tool_input.new_str)

\* the same holds of every insert that is not after a last line without a
\* line ending
C16_HoldsAfterEndedLine ==
    InsertOnFile =>
        LET c == pre_files[Target]
            k == tool_input.insert_line
        IN  (k = Len(ReadLines(c)) /\ c # <<>> => c[Len(c)] = NL)
                => InsertAsClaimed(LineTexts(c), k, tool_input.new_str)

\* an insert between two lines
C16_InsertedBetween ==
    /\ InsertOnFile
    /\ tool_input.insert_line = 1
    /\ Len(ReadLines(pre_files[Target])) = 2
    /\ Len(ReadLines(files[Target])) = 3

\* the last call was a view of a file
ViewOnFile ==
    /\ call = "handle_tool_call"
    /\ tool_input.command = "view"
    /\ Target \in DOMAIN pre_files
    /\ tool_result.content.msg = ViewedMsg

\* the numbers of the lines that a view asks for, of a file of n lines: all
\* of them, or those of the range, where a start below 1 stands for 1 and an
\* end of -1 for n
Requested(params, n) ==
    LET r == Get(params, "view_range", <<>>)
    IN  IF Len(r) = 2
        THEN Max(1, r[1])..Min(IF r[2] = 0 - 1 THEN n ELSE r[2], n)
        ELSE 1..n

\* the numbers of the lines shown
ShownNumbers == {tool_result.content.shown[j].no : j \in DOMAIN tool_result.content.shown}

\* the notes end with one that states the limit, after one that states the
\* number of lines of the file
NotesStateTotalAndLimit(n) ==
    LET notes == tool_result.content.notes
    IN  /\ Len(notes) >= 2
        /\ notes[Len(notes)].note = MaximumNote
        /\ notes[Len(notes)].limit = ViewLimit
        /\ notes[Len(notes) - 1].total = n

C17_RangeCapped ==
    /\ ViewOnFile
    /\ "view_range" \in DOMAIN tool_input
    /\ Len(tool_input.view_range) = 2
    /\ Cardinality(Requested(tool_input, Len(ReadLines(pre_files[Target])))) > ViewLimit
    /\ Cardinality(ShownNumbers) = ViewLimit

----------------------------------------------------------------------------
(* What the claims about the agent's tool loop speak of.                   *)

\* the tool result blocks that the agent has sent to the reasoning service:
\* the first message of the conversation is the request, the later user
\* messages hold blocks
SentBlocks ==
    UNION {{conversation_history[i].content[j] : j \in DOMAIN conversation_history[i].content} :
             i \in {k \in 2..Len(conversation_history) : conversation_history[k].role = "user"}}

\* the messages of the failures of the editor's commands
EditorFailureMsgs ==
    {InvalidPathMsg, FileNotFoundMsg, AlreadyExistsMsg, TextNotFoundMsg, MultipleMsg,
     InvalidInsertLineMsg, NoPreviousEditsMsg}

\* C18: every failure of an editor command (file not found, already exists,
\* ambiguous or missing match, invalid insert line, no undo history, invalid
\* path) is in the conversation as a tool result that carries the message
\* and is flagged as an error
C18_EditorFailuresFlagged ==
    \A b \in SentBlocks : b.content.msg \in EditorFailureMsgs => b.is_error

\* C18: a failure of an editor command is in the conversation
C18_FailureSent == \E b \in SentBlocks : b.content.msg \in EditorFailureMsgs

\* the last result that the agent has taken in hand
LastResult(results) == results[Len(results)]

\* the step executes a tool call whose name is not registered
UnregisteredStep ==
    agent_pc = "tools" /\ pending # <<>> /\ ~Registered(Head(pending).name)

\* the step ends a tool call with an exception raised by the tool function
RaisingStep == exec' # exec /\ exec'.raised # ""

\* the step adds to the results of the response an error result with the id
\* of the first pending call and message msg about detail, and goes on with
\* the calls after it
ErrorResultStep(msg, detail) ==
    /\ Len(tool_results') = Len(tool_results) + 1
    /\ SubSeq(tool_results', 1, Len(tool_results)) = tool_results
    /\ LastResult(tool_results').is_error
    /\ LastResult(tool_results').tool_use_id = Head(pending).id
    /\ LastResult(tool_results').content.msg = msg
    /\ LastResult(tool_results').content.detail = detail
    /\ agent_pc' = "tools"
    /\ pending' = Tail(pending)
    /\ conversation_history' = conversation_history

\* every message of tool results answers the assistant message before it:
\* one block for each of its tool calls, in their order, with the call's id
ResultsAnswerCalls ==
    \A i \in 2..Len(conversation_history) :
        conversation_history[i].role = "user" =>
            /\ conversation_history[i - 1].role = "assistant"
            /\ Len(conversation_history[i].content) = Len(conversation_history[i - 1].content)
            /\ \A j \in DOMAIN conversation_history[i].content :
                conversation_history[i].content[j].tool_use_id =
                    conversation_history[i - 1].content[j].id

\* C19: a tool call with an unregistered name gets a result flagged as an
\* error with the tool-not-found message and no handler is called; a tool
\* call whose function raises an exception (a missing required parameter
\* too) gets a result flagged as an error whose content carries the
\* exception's message; both results keep the call's id, the loop goes on
\* with the next call, and every call of a response has its result in the
\* conversation
C19_DispatchNeverPropagates ==
    /\ []ResultsAnswerCalls
    /\ [][/\ UnregisteredStep =>
                /\ ErrorResultStep(ToolNotFoundMsg, Head(pending).name)
                /\ exec'.handler_calls = 0
                /\ UNCHANGED <<files, backups, last_edits, tool_input, tool_result>>
          /\ RaisingStep =>
                ErrorResultStep(ToolExecErrorMsg, exec'.raised)]_vars

\* C19: a response with an unregistered tool and then a call that lacks a
\* required parameter has both error results in the conversation, and the
\* agent asks the reasoning service again
C19_ErrorsSentLoopWentOn ==
    /\ agent_pc = "api"
    /\ \E i \in 2..Len(conversation_history) :
        /\ conversation_history[i].role = "user"
        /\ Len(conversation_history[i].content) = 2
        /\ conversation_history[i].content[1].content.msg = ToolNotFoundMsg
        /\ conversation_history[i].content[1].is_error
        /\ conversation_history[i].content[2].content.msg = ToolExecErrorMsg
        /\ conversation_history[i].content[2].content.detail = MissingArgumentError
        /\ conversation_history[i].content[2].is_error

\* the step makes the first handler call of the editor's tool call tc
FirstHandlerCall(tc) ==
    /\ agent_pc = "tools" /\ pending # <<>> /\ tc = Head(pending)
    /\ exec'.id = tc.id /\ exec'.handler_calls = 1

\* the tool call is one of the commands with confirmation requested: confirm
\* true or absent
ConfirmRequested(tc, commands) ==
    /\ tc.name = EditorTool
    /\ "command" \in DOMAIN tc.input /\ tc.input.command \in commands
    /\ Get(tc.input, "confirm", TRUE)

\* the first handler call has rejected the command with an error
Rejected(result) ==
    result.is_error \/ result.content.msg \in EditorFailureMsgs \cup {OldStrRequiredMsg}

\* the step takes an answer of the user at the prompt
AnswerStep(answers) ==
    /\ agent_pc = "prompt"
    /\ exec'.answers = exec.answers + 1
    /\ exec'.answer \in answers

\* the editor's files, backups and records, and its last call
editorState == <<files, backups, last_edits, tool_input, tool_result>>

\* the confirmation protocol, for the commands given: the first handler call
\* of a command that is not rejected returns the sentinel, the wrapper waits
\* for an answer and the files are as before; yes re-issues the same input
\* with confirm false in a second handler call and ends the call; no ends
\* the call with the rejection message and no handler call; another answer
\* asks again with no handler call; the files change in no other step
ConfirmationProtocol(commands) ==
    /\ \A tc \in {pending[i] : i \in {1} \cap DOMAIN pending} :
        FirstHandlerCall(tc) /\ ConfirmRequested(tc, commands) =>
            /\ files' = files
            /\ \/ Rejected(tool_result') /\ agent_pc' = "tools"
               \/ /\ tool_result'.content.msg = ConfirmEditMsg
                  /\ agent_pc' = "prompt" /\ waiting' = tc
                  /\ tool_results' = tool_results
    /\ agent_pc = "prompt" /\ ConfirmRequested(waiting, commands) =>
        /\ AnswerStep(YesAnswers) =>
            /\ exec'.handler_calls = 2
            /\ tool_input' = With(waiting.input, "confirm", FALSE)
            /\ agent_pc' = "tools" /\ pending' = Tail(pending)
            /\ LastResult(tool_results').tool_use_id = waiting.id
            /\ LastResult(tool_results').content = tool_result'.content
        /\ AnswerStep(NoAnswers) =>
            /\ exec'.handler_calls = 1
            /\ editorState' = editorState
            /\ agent_pc' = "tools" /\ pending' = Tail(pending)
            /\ LastResult(tool_results').tool_use_id = waiting.id
            /\ LastResult(tool_results').content.msg = RejectedMsg
        /\ AnswerStep(OtherAnswers) =>
            /\ exec'.handler_calls = 1
            /\ editorState' = editorState
            /\ agent_pc' = "prompt" /\ waiting' = waiting
            /\ tool_results' = tool_results
        /\ files' # files => AnswerStep(YesAnswers)

\* C20: every mutating editor command (str_replace, create, insert,
\* undo_edit) issued with confirm true or absent returns the sentinel on its
\* first handler call, the wrapper waits for an answer, and the target file
\* is modified only after yes, by one second call of the same command, path
\* and parameters with confirm false; no ends the call with the rejection
\* message and no second call; any other answer asks again without a call
C20_ConfirmationProtocol ==
    [][ConfirmationProtocol({"str_replace", "create", "insert", "undo_edit"})]_vars

\* C20: the protocol holds for str_replace, create and insert
C20_HoldsForEdits ==
    [][ConfirmationProtocol({"str_replace", "create", "insert"})]_vars

\* C20: a str_replace with confirmation requested was answered with yes
\* after another answer, and its second handler call has changed the file
C20_ConfirmedAfterReprompt ==
    /\ exec.handler_calls = 2 /\ exec.answers = 2 /\ exec.answer \in YesAnswers
    /\ tool_input # <<>> /\ tool_input.command = "str_replace"
    /\ tool_result.content.msg = ReplacedMsg
    /\ files # pre_files

----------------------------------------------------------------------------
(* What the claim about the notes of a view speaks of.                     *)

\* the notes of the last view that are of the kind given
NotesOf(kind) ==
    {tool_result.content.notes[j] : j \in {k \in DOMAIN tool_result.content.notes :
                                             tool_result.content.notes[k].note = kind}}

\* C30: when a view of a range has the note 'Showing lines s to e of L total
\* lines', the lines shown are exactly the lines s to e of the file, with
\* e <= L, and the note of the limit of 250 lines is there only when 250
\* lines are shown
C30_ViewNoteTrue ==
    ViewOnFile =>
        /\ \A nt \in NotesOf(ShowingNote) :
            /\ nt.total = Len(ReadLines(pre_files[Target]))
            /\ nt.to <= nt.total
            /\ ShownNumbers = nt.from..nt.to
        /\ NotesOf(MaximumNote) # {} => Len(tool_result.content.shown) = ViewLimit

\* C30: the note holds when the range given ends inside the file
C30_HoldsInsideFile ==
    (/\ ViewOnFile
     /\ "view_range" \in DOMAIN tool_input
     /\ Len(tool_input.view_range) = 2
     /\ tool_input.view_range[2] >= Max(1, tool_input.view_range[1]) - 1
     /\ Max(1, tool_input.view_range[1]) + ViewLimit - 1 <= Len(ReadLines(pre_files[Target])))
        => /\ \A nt \in NotesOf(ShowingNote) :
                /\ nt.to <= nt.total
                /\ ShownNumbers = nt.from..nt.to
           /\ NotesOf(MaximumNote) # {} => Len(tool_result.content.shown) = ViewLimit

----------------------------------------------------------------------------
(* What the claims about calls that commit nothing speak of.               *)

\* the last call was a str_replace, a create or an insert that returned a
\* preview or an error
PreviewOrError ==
    /\ call = "handle_tool_call"
    /\ tool_input.command \in {"str_replace", "create", "insert"}
    /\ tool_result.content.msg \notin CommittedMsgs

\* the last call was on a path that fails the validation
OnInvalidPath ==
    /\ call = "handle_tool_call"
    /\ ~ToolValidate(tool_input.path).is_valid

C28_InvalidPathRejected ==
    /\ OnInvalidPath
    /\ tool_input.command = "create"
    /\ ~Get(tool_input, "confirm", TRUE)
    /\ files # <<>>
    /\ tool_result.is_error

----------------------------------------------------------------------------
(* What the claims about what an undo restores speak of.                   *)

\* the last call was the first undo_edit of a path since its last committed
\* edit
FirstUndo ==
    /\ UndoCall
    /\ Target \in DOMAIN hist
    /\ hist[Target].undos = 0
        \/ (hist[Target].undos = 1 /\ tool_result.content.msg \in UndoneMsgs)

\* C26: after a committed edit of a path that had the content c, and calls
\* that commit nothing (previews and rejected calls on the path), undo_edit
\* of the path leaves the path with c
C26_UndoSurvivesNonCommitting ==
    FirstUndo => FileAt(files, Target) = hist[Target].before

\* C26: the undo restores c when the calls since the edit were creates on
\* the path, which write no backup
C26_HoldsAfterRejectedCreates ==
    (/\ FirstUndo
     /\ pre_backups = <<>> \/ hist[Target].age = 1)
        => FileAt(files, Target) = hist[Target].before

\* C27: undo_edit of a path leaves at the path only a file that was there
\* before: after committed edits of two paths with the same basename,
\* undo_edit of either restores its own content before the edit and never
\* the content of the other file
C27_UndoNeverCrossesPaths ==
    (UndoCall /\ Target \in DOMAIN hist) => FileAt(files, Target) \in hist[Target].held

----------------------------------------------------------------------------
(* What the claim about the order of the tool loop speaks of.              *)

\* the last message of the conversation
LastMessage == conversation_history[Len(conversation_history)]

\* while the agent executes the tool calls of a response: the results taken
\* so far are those of the first calls of the response, in their order and
\* under their ids, the calls after them are pending in their order, and a
\* call that waits at the prompt is the first of the pending
RunInOrder ==
    agent_pc \in {"tools", "prompt"} =>
        /\ LastMessage.role = "assistant"
        /\ Len(tool_results) <= Len(LastMessage.content)
        /\ \A j \in DOMAIN tool_results : tool_results[j].tool_use_id = LastMessage.content[j].id
        /\ pending = SubSeq(LastMessage.content, Len(tool_results) + 1, Len(LastMessage.content))
        /\ agent_pc = "prompt" => (pending # <<>> /\ waiting = Head(pending))

\* a request goes to the reasoning service only when the last message is the
\* user's: the request, or the results of the tool calls
RequestAfterResults ==
    agent_pc = "api" => LastMessage.role = "user"

\* every message of results has one block for each tool call of the
\* response before it, the i-th block under the id of the i-th call, and no
\* two messages of results follow each other
OneBlockForEachCall ==
    \A i \in 2..Len(conversation_history) :
        conversation_history[i].role = "user" =>
            /\ conversation_history[i - 1].role = "assistant"
            /\ DOMAIN conversation_history[i].content = DOMAIN conversation_history[i - 1].content
            /\ \A j \in DOMAIN conversation_history[i].content :
                /\ conversation_history[i].content[j].type = "tool_result"
                /\ conversation_history[i].content[j].tool_use_id =
                        conversation_history[i - 1].content[j].id

\* a step that starts a tool call starts the first pending one, and only
\* when no call waits for an answer; a step that ends a tool call ends the
\* first pending one, adds its one result and leaves the other calls
\* pending; the results go to the conversation only when no call is pending
OneAtATime ==
    /\ ncalls' # ncalls =>
        /\ agent_pc = "tools" /\ pending # <<>>
        /\ ncalls' = ncalls + 1
        /\ exec'.id = Head(pending).id
    /\ tool_results' # tool_results /\ agent_pc # "api" =>
        /\ pending # <<>>
        /\ exec'.id = Head(pending).id
        /\ tool_results' = Append(tool_results, LastResult(tool_results'))
        /\ LastResult(tool_results').tool_use_id = Head(pending).id
        /\ pending' = Tail(pending)
    /\ pending' # pending /\ agent_pc # "api" =>
        Len(tool_results') = Len(tool_results) + 1
    /\ conversation_history' # conversation_history /\ agent_pc = "tools" =>
        /\ pending = <<>>
        /\ Len(tool_results) = Len(LastMessage.content)
        /\ agent_pc' = "api"

\* C24: the agent runs the tool calls c1..cn of a response one at a time in
\* their order, each to its end before the next starts, then appends one
\* user message of n tool_result blocks, the i-th under the id of ci, and
\* only then asks the reasoning service again; no call is skipped, repeated
\* or answered under the id of another
C24_SequentialOneToOne ==
    /\ [](RunInOrder /\ RequestAfterResults /\ OneBlockForEachCall)
    /\ [][OneAtATime]_vars

\* C24: a response of two tool calls, the first confirmed at the prompt, is
\* answered by one message of two blocks under the ids of the calls
C24_TwoCallsAnswered ==
    /\ agent_pc = "api"
    /\ Len(conversation_history) = 3
    /\ Len(conversation_history[2].content) = 2
    /\ conversation_history[2].content[1].id # conversation_history[2].content[2].id
    /\ Len(conversation_history[3].content) = 2
    /\ conversation_history[3].content[1].tool_use_id = conversation_history[2].content[1].id
    /\ conversation_history[3].content[2].tool_use_id = conversation_history[2].content[2].id
    /\ conversation_history[3].content[1].content.msg = ReplacedMsg
    /\ conversation_history[3].content[2].content.msg = ViewedMsg

----------------------------------------------------------------------------
(* What the claim about the length of a tool result speaks of.             *)

\* C23: the content of every tool result that the agent delivers is at most
\* 10000 characters long, whether the tool function returned, raised, or the
\* tool is not registered
C23_ResultBounded ==
    call = "execute_tool_call" => Len(out) <= DefaultMaxChars

\* C23: the content is within 10000 characters when the tool function
\* returned or raised
C23_HoldsForRegisteredTools ==
    (call = "execute_tool_call" /\ exec.name # UnknownTool) => Len(out) <= DefaultMaxChars

\* C23: an output of 20000 characters delivered as 10000 characters that end
\* with the note
C23_LongOutputTruncated ==
    /\ call = "execute_tool_call"
    /\ exec.handler_calls = 1
    /\ Len(text) = MaxRawLen
    /\ Len(out) = DefaultMaxChars
    /\ out[Len(out)] = "]"

----------------------------------------------------------------------------
(* What the claim about the tools offered speaks of.                       *)

\* C29: the tools list of every request that the agent sends names every
\* tool that the registry holds when the request is sent
C29_EveryToolOffered ==
    \A i \in DOMAIN requests : requests[i].registered \subseteq requests[i].tools

\* C29: the tools list names every registered tool when the model is not
\* one of the two that get the schema-less tools, or the editor is not
\* registered
C29_HoldsWithoutSchemaLessTools ==
    (model \notin SchemaLessModels \/ schema_less_tools = <<>>) =>
        \A i \in DOMAIN requests : requests[i].registered \subseteq requests[i].tools

\* C29: a request sent with both tools registered that names them both
C29_BothOffered ==
    \E i \in DOMAIN requests :
        /\ requests[i].registered = {EditorTool, SearchTool}
        /\ requests[i].tools = {EditorTool, SearchTool}

----------------------------------------------------------------------------
(* What the claim about the listing speaks of.                             *)

\* the directory that get_all_files walks
WalkedTop == IF ~IsAbs(raw) THEN PathJoin(repo_path, raw) ELSE raw

RECURSIVE WholeTree(_)
\* the files of the whole tree below root, no subdirectory left out
WholeTree(root) ==
    LET dirs == InScanOrder(EntryNames(root, FALSE))
        names == InScanOrder(EntryNames(root, TRUE))
    IN  [i \in 1..Len(names) |-> PathJoin(root, names[i])]
            \o Flatten([i \in 1..Len(dirs) |-> WholeTree(PathJoin(root, dirs[i]))])

\* the directories that hold the file at p, from the root of the file
\* system down
AncestorsOf(p) ==
    LET parts == PathParts(NormPath(p))
    IN  {JoinAll(SubSeq(parts, 1, i)) : i \in 1..(Len(parts) - 1)}

----------------------------------------------------------------------------
(* What the claims about the search speak of.                              *)

\* a content search that took max_results and max_per_file, both >= 1, and
\* returned results
BudgetedSearch ==
    /\ call = "search" /\ ~search_content.is_error
    /\ "max_results" \in DOMAIN search_input /\ search_input.max_results >= 1
    /\ "max_per_file" \in DOMAIN search_input /\ search_input.max_per_file >= 1

\* C21: the mapping that a content search returns holds at most
\* max_per_file matches for each file and at most max_results matches in
\* all
C21_BothBudgetsHonoured ==
    BudgetedSearch =>
        /\ \A i \in DOMAIN search_results :
               Len(search_results[i].matches) <= search_input.max_per_file
        /\ SumMatches(search_results) <= search_input.max_results

\* C21: each file holds at most max_per_file matches, and the total stays
\* below max_results + max_per_file
C21_TotalWithinOneFileOfBudget ==
    BudgetedSearch =>
        /\ \A i \in DOMAIN search_results :
               Len(search_results[i].matches) <= search_input.max_per_file
        /\ SumMatches(search_results) < search_input.max_results + search_input.max_per_file

\* C21: a search that stopped at its total with a file left out
C21_StoppedAtTotal ==
    /\ BudgetedSearch
    /\ SumMatches(search_results) = search_input.max_results
    /\ Len(search_results) < Cardinality(DOMAIN files)

\* what format_content_search_results was given: the matches and the files
TotalMatches == SumMatches(search_results)
TotalFiles == Len(search_results)

\* C22: whenever a formatting function leaves items out, its output holds
\* a note, and the number of each note is the number of the items of its
\* kind that the output does not show
C22_TrailerExact ==
    /\ call = "format_files" =>
           /\ search_content.lines_shown < TotalFiles => search_content.notes # <<>>
           /\ \A k \in DOMAIN search_content.notes :
                  search_content.lines_shown + search_content.notes[k] = TotalFiles
    /\ call = "format_content" =>
           /\ (search_content.matches_shown < TotalMatches
                   \/ search_content.files_shown < TotalFiles)
                  => search_content.file_notes \o search_content.match_notes # <<>>
           /\ \A k \in DOMAIN search_content.file_notes :
                  search_content.files_shown + search_content.file_notes[k] = TotalFiles
           /\ \A k \in DOMAIN search_content.match_notes :
                  search_content.matches_shown + search_content.match_notes[k] = TotalMatches

\* C22: the note of format_file_search_results is exact, and so are the
\* note on files of format_content_search_results and its note on matches
\* when no match is written after the note
C22_ExactButForLaterMatches ==
    /\ call = "format_files" =>
           /\ search_content.lines_shown < TotalFiles => search_content.notes # <<>>
           /\ \A k \in DOMAIN search_content.notes :
                  search_content.lines_shown + search_content.notes[k] = TotalFiles
    /\ call = "format_content" =>
           /\ (search_content.matches_shown < TotalMatches
                   \/ search_content.files_shown < TotalFiles)
                  => search_content.file_notes \o search_content.match_notes # <<>>
           /\ \A k \in DOMAIN search_content.file_notes :
                  search_content.files_shown + search_content.file_notes[k] = TotalFiles
           /\ \A k \in DOMAIN search_content.match_notes :
                  search_content.matches_shown + search_content.match_notes[k] >= TotalMatches

\* C22: a formatting of file results that left some out
C22_FilesLeftOut ==
    /\ call = "format_files"
    /\ search_content.lines_shown >= 1
    /\ search_content.notes # <<>>

=============================================================================
